---- MODULE Spec2Model ----
(***************************************************************************)
(* Model of the HKJC race scraper (src/hkjc_scraper).                      *)
(*                                                                         *)
(*   Spec          the crawl orchestrator, main() of main.py: checkpoint   *)
(*                 load, race-card scrape, per-entrant loop, periodic      *)
(*                 checkpoint, final output, interrupt and fatal handlers, *)
(*                 and a later run of the same command (resume).           *)
(*   SpecPastRuns  the past-run extraction of one detail page,             *)
(*                 HorseDetailScraper._scrape_past_runs_from_main_page.    *)
(*   SpecArgs      the start of main(): the command line is validated,     *)
(*                 the checkpoint loaded and the browser launched.         *)
(*   SpecRetry     one call of utils.retry_with_backoff.                   *)
(*   SpecMatch     SelectorHelper._header_matches on two texts.            *)
(*   SpecTable     SelectorHelper.find_table_by_headers and                *)
(*                 get_header_column_map on one page.                      *)
(***************************************************************************)
EXTENDS Integers, Sequences, FiniteSets, TLC

(***************************************************************************)
(* Bounds of the model.                                                    *)
(***************************************************************************)
MaxEntrants == 3      \* rows of the race card
MaxRuns     == 2      \* runs of the command on the same checkpoint/output
MaxInterval == 2      \* values of CHECKPOINT_INTERVAL that are explored
MaxTables   == 2      \* tables on a detail page
MaxRows     == 8      \* rows (header included) of one table
MaxMatches  == 7      \* "<number>: <number>" pairs in the page text
MaxRetryArg == 3      \* largest max_retries / --max-retries that is passed
MaxTextLen  == 3      \* characters of a text built for _header_matches
MaxDocTables == 2     \* tables on a race-card page
MaxCells    == 4      \* first-row cells on a race-card page, all tables together

(***************************************************************************)
(* Program constants.                                                      *)
(***************************************************************************)
DefaultCheckpointInterval == 2
ComprehensiveThreshold    == 8
BasicThreshold            == 3
MaxPastRunRows            == 6
DefaultMaxRetries         == 3
DefaultRetryBaseDelayMs   == 1000
DefaultRetryMaxDelayMs    == 5000
JitterMaxMs               == 1000
MinHeadersFound           == 3

VARIABLES
    \* ---- the crawl (main.py) ----
    pc,          \* position of main(): one of the states of the orchestrator
    card,        \* the race card on the site: card[k] = entrant k has a detail link
    ckptPath,    \* --checkpoint was given
    interval,    \* config["checkpoint_interval"]
    horses,      \* main.horses, the in-progress record list
    topline,     \* main.topline_data
    i,           \* 1-based position of the loop (enumerate index + 1)
    ckptFile,    \* the checkpoint file
    outFile,     \* the output file
    exitCode,    \* -1 while running, else the exit status of the process
    cause,       \* why the run ended: "none", "done", "interrupt", "fatal"
    run,         \* number of the current run of the command
    prev,        \* cause of the end of the previous run ("none" for the first)
    loaded,      \* the list load_checkpoint returned in this run
    navigated,   \* entrants (positions of topline) whose detail page was opened in this run
    visited,     \* positions of topline the loop has gone through in this run, in order
    failedEntrants, \* positions whose processing raised in this run
    periodicSaves,  \* calls of save_checkpoint made by the loop in this run
    ioFailed,    \* a write of the checkpoint or of the output failed in this run
    ckptOk,      \* the last save_checkpoint of this run wrote the file
    outWritten,  \* save_final_output was reached in this run
    args,        \* the command line: --date, --course, --raceno
    scrapeReturned, \* scrape_race returned a list in this run (it did not raise)
    \* ---- past-run extraction (horse_detail.py) ----
    page,        \* the detail page: its tables and the number of text matches
    past_runs,   \* the list returned
    prDone,      \* the extraction has run
    \* ---- retry_with_backoff (utils.py) ----
    caller,      \* who calls: "scrape_race", "scrape_horse_details" or "direct"
    cliMaxRetries,  \* --max-retries, which main() stores in its own config dict
    call,        \* the arguments max_retries, base_delay_ms, max_delay_ms of the call
    attempt,     \* number of times func was invoked so far (the loop variable)
    sleeps,      \* the time.sleep calls made so far, in order
    last_exception, \* the attempt whose error is held, or NoException
    rpc,         \* "call" while the loop runs, then "returned" or "raised"
    retryResult, \* the attempt whose value was returned / whose error was raised
    \* ---- header matching and table location (selectors.py) ----
    expected,    \* _header_matches: the expected label
    actual,      \* _header_matches: the observed header text
    matchResult, \* what _header_matches returned
    mDone,       \* _header_matches has run
    doc,         \* the page: its tables in document order
    located,     \* find_table_by_headers: position of the table returned, 0 for None
    column_map,  \* get_header_column_map of the table under test
    tDone        \* the two operations have run

crawlVars == <<pc, card, ckptPath, interval, horses, topline, i, ckptFile, outFile,
               exitCode, cause, run, prev, loaded, navigated, visited,
               failedEntrants, periodicSaves, ioFailed, ckptOk, outWritten,
               args, scrapeReturned>>
prVars    == <<page, past_runs, prDone>>
retryVars == <<caller, cliMaxRetries, call, attempt, sleeps, last_exception, rpc,
               retryResult>>
hdrVars   == <<expected, actual, matchResult, mDone, doc, located, column_map, tDone>>

VARIABLES
    \* ---- record assembly (models.py) ----
    merge_topline,  \* the dict topline given to the merge
    merge_detail,   \* the dict detail given to the merge
    merged_record,  \* the record built, or ValidationError
    mergeDone       \* the merge has run

mergeVars == <<merge_topline, merge_detail, merged_record, mergeDone>>

VARIABLES
    \* ---- from a race-card row to a checkpointed record ----
    row,         \* the race-card row: mapped headers, cell texts, detail link
    horse_data,  \* the ToplineData _extract_horse_data built from row
    assembled,   \* the HorseRecord list assembled so far
    supplied,    \* per record of assembled, the fields the site gave data for
    json_file,   \* the checkpoint file: whether it exists, and its text
    saveOk,      \* the last save_checkpoint wrote the file
    reloaded,    \* what load_checkpoint returned
    apc          \* "row", "detail", "saved" or "loaded"

asmVars == <<row, horse_data, assembled, supplied, json_file, saveOk, reloaded, apc>>

VARIABLES
    \* ---- browser pages (racecard.py 38-59, horse_detail.py 36-71) ----
    browser_pages,   \* number of pages of the browser that are open
    pages_opened,    \* number of pages opened since the launch
    scraper,         \* whose _scrape runs: "scrape_race" or "scrape_horse_details"
    n_entrants,      \* number of entrants of the race card
    entrant_no,      \* the entrant whose detail page is scraped, 0 before the loop
    try_no,          \* the attempt of retry_with_backoff, from 0
    attempt_outcome, \* how the body of the try ended: "ok", "error", "interrupt"
    ppc              \* position: "attempt", "in_try", "finally", "returned",
                     \* "failed_attempt", "sleep", "next", "unwinding", "closing", "ended"

pageVars == <<browser_pages, pages_opened, scraper, n_entrants, entrant_no, try_no,
              attempt_outcome, ppc>>

VARIABLES
    \* ---- the web front end (app.py) ----
    scraping_status, \* the global dict: is_running, result, error
    posts,           \* the POST /api/scrape requests: where each handler is
    threads,         \* the background threads, in the order they were started
    got              \* what the last GET /api/result returned, and when

appVars == <<scraping_status, posts, threads, got>>
vars      == <<crawlVars, prVars, retryVars, hdrVars, mergeVars, asmVars, pageVars, appVars>>

\* what an action of one part leaves alone
nonCrawlVars   == <<prVars, retryVars, hdrVars, mergeVars, asmVars, pageVars, appVars>>
nonPastRunVars == <<crawlVars, retryVars, hdrVars, mergeVars, asmVars, pageVars, appVars>>
nonRetryVars   == <<crawlVars, prVars, hdrVars, mergeVars, asmVars, pageVars, appVars>>
nonHdrVars     == <<crawlVars, prVars, retryVars, mergeVars, asmVars, pageVars, appVars>>

(***************************************************************************)
(* Records.  A HorseRecord is abstracted to the entrant it describes (no,  *)
(* the race-card position standing for the topline fields) and its three   *)
(* detail fields.  ToplineData has the same fields plus detail_url.        *)
(***************************************************************************)
EmptyUrl == ""
SomeUrl  == "u"

\* models.py HorseRecord: detail fields default to empty list / empty string
HorseRecord(no, inj, past, prof) ==
    [no |-> no, inj |-> inj, past |-> past, prof |-> prof]

\* models.py ToplineData
ToplineData(no, inj, past, prof, url) ==
    [no |-> no, inj |-> inj, past |-> past, prof |-> prof, detail_url |-> url]

\* what scrape_horse_details can return: the three keys are always present
DetailResults ==
    { [inj |-> <<"i">>, past |-> <<"r">>, prof |-> "p"],
      [inj |-> <<>>,    past |-> <<"r">>, prof |-> "p"],
      [inj |-> <<>>,    past |-> <<>>,    prof |-> ""] }

\* the file system: a file is absent, unreadable, or holds a list of records
NoFile      == [exists |-> FALSE, corrupt |-> FALSE, data |-> <<>>]
CorruptFile == [exists |-> TRUE,  corrupt |-> TRUE,  data |-> <<>>]
FileOf(d)   == [exists |-> TRUE,  corrupt |-> FALSE, data |-> d]

\* HorseRecord.model_dump() followed by json.dump, and json.load followed by HorseRecord(**d)
ModelDump(r) == [no |-> r.no, inj |-> r.inj, past |-> r.past, prof |-> r.prof]
Dumped(data) == [k \in 1..Len(data) |-> ModelDump(data[k])]

\* utils.load_checkpoint: any error while reading yields the empty list
load_checkpoint(f) ==
    IF ~f.exists \/ f.corrupt THEN <<>>
    ELSE [k \in 1..Len(f.data) |->
            HorseRecord(f.data[k].no, f.data[k].inj, f.data[k].past, f.data[k].prof)]

\* utils.save_checkpoint / save_final_output: the files a call can leave.
\* A failure is logged and swallowed: the file is untouched (open failed) or
\* truncated (the write failed half way).
WriteOutcomes(old, data) ==
    { [file |-> FileOf(Dumped(data)), ok |-> TRUE],
      [file |-> old,                  ok |-> FALSE],
      [file |-> CorruptFile,          ok |-> FALSE] }

(***************************************************************************)
(* Initial state: the command is started for the first time on a site      *)
(* whose race card has n entrants, each with or without a detail link.     *)
(***************************************************************************)
Cards == UNION { [1..n -> BOOLEAN] : n \in 0..MaxEntrants }

\* main.py 92, the command line of the docstring: 2025/09/17, HV, race 1.
\* A date is the text of its three fields: number of digits and value of
\* month and day, number of digits of the year (the run is in 2025), and
\* the separator.
ExampleArgs ==
    [date   |-> [sep |-> "/", ylen |-> 4, mon |-> 9, mlen |-> 2, day |-> 17, dlen |-> 2],
     course |-> "HV",
     raceno |-> 1]

\* None, for an argument that was not passed
NoneArg == -1
\* last_exception = None
NoException == -1

nonMergeVars == <<crawlVars, prVars, retryVars, hdrVars, asmVars, pageVars, appVars>>

nonAsmVars == <<crawlVars, prVars, retryVars, hdrVars, mergeVars, pageVars, appVars>>

nonPageVars == <<crawlVars, prVars, retryVars, hdrVars, mergeVars, asmVars, appVars>>

nonAppVars == <<crawlVars, prVars, retryVars, hdrVars, mergeVars, asmVars, pageVars>>

\* the parts that a specification does not exercise stay as constructed
IdleCrawl ==
    /\ pc = "Idle"
    /\ card = <<>>
    /\ ckptPath = FALSE
    /\ interval = DefaultCheckpointInterval
    /\ horses = <<>>
    /\ topline = <<>>
    /\ i = 1
    /\ ckptFile = NoFile
    /\ outFile = NoFile
    /\ exitCode = -1
    /\ cause = "none"
    /\ run = 1
    /\ prev = "none"
    /\ loaded = <<>>
    /\ navigated = {}
    /\ visited = <<>>
    /\ failedEntrants = {}
    /\ periodicSaves = 0
    /\ ioFailed = FALSE
    /\ ckptOk = TRUE
    /\ outWritten = FALSE
    /\ args = ExampleArgs
    /\ scrapeReturned = FALSE

IdlePastRuns ==
    /\ page = [tables |-> <<>>, matches |-> 0]
    /\ past_runs = <<>>
    /\ prDone = FALSE

IdleRetry ==
    /\ caller = "direct"
    /\ cliMaxRetries = NoneArg
    /\ call = [max_retries |-> NoneArg, base_delay_ms |-> NoneArg, max_delay_ms |-> NoneArg]
    /\ attempt = 0
    /\ sleeps = <<>>
    /\ last_exception = NoException
    /\ rpc = "idle"
    /\ retryResult = NoException

IdleHeaders ==
    /\ expected = <<>>
    /\ actual = <<>>
    /\ matchResult = FALSE
    /\ mDone = FALSE
    /\ doc = <<>>
    /\ located = 0
    /\ column_map = <<>>
    /\ tDone = FALSE

IdleMerge ==
    /\ merge_topline = <<>>
    /\ merge_detail = <<>>
    /\ merged_record = <<>>
    /\ mergeDone = FALSE

IdleAssemble ==
    /\ row = <<>>
    /\ horse_data = <<>>
    /\ assembled = <<>>
    /\ supplied = <<>>
    /\ json_file = [exists |-> FALSE, text |-> <<>>]
    /\ saveOk = FALSE
    /\ reloaded = <<>>
    /\ apc = "idle"

IdlePages ==
    /\ browser_pages = 0
    /\ pages_opened = 0
    /\ scraper = "scrape_race"
    /\ n_entrants = 0
    /\ entrant_no = 0
    /\ try_no = 0
    /\ attempt_outcome = "none"
    /\ ppc = "idle"

IdleApp ==
    /\ scraping_status = [is_running |-> FALSE, result |-> 0, error |-> 0]
    /\ posts = <<>>
    /\ threads = <<>>
    /\ got = [status |-> 0, body |-> 0, run |-> 0, state |-> "none"]

Init ==
    /\ IdleApp
    /\ IdlePages
    /\ IdleAssemble
    /\ IdleMerge
    /\ pc = "Init"
    /\ card \in Cards
    /\ ckptPath \in BOOLEAN
    /\ interval \in 1..MaxInterval
    /\ horses = <<>>
    /\ topline = <<>>
    /\ i = 1
    /\ ckptFile = NoFile
    /\ outFile = NoFile
    /\ exitCode = -1
    /\ cause = "none"
    /\ run = 1
    /\ prev = "none"
    /\ loaded = <<>>
    /\ navigated = {}
    /\ visited = <<>>
    /\ failedEntrants = {}
    /\ periodicSaves = 0
    /\ ioFailed = FALSE
    /\ ckptOk = TRUE
    /\ outWritten = FALSE
    /\ args = ExampleArgs
    /\ scrapeReturned = FALSE
    /\ IdlePastRuns
    /\ IdleRetry
    /\ IdleHeaders

(***************************************************************************)
(* main.py 214-227: the two handlers of the outer try.  Both flush the     *)
(* list hs to the checkpoint when a path was given, then exit with 1.      *)
(***************************************************************************)
FlushCheckpoint(hs) ==
    IF ckptPath
    THEN \E w \in WriteOutcomes(ckptFile, hs) :
            /\ ckptFile' = w.file
            /\ ckptOk' = w.ok
            /\ ioFailed' = (ioFailed \/ ~w.ok)
    ELSE UNCHANGED <<ckptFile, ckptOk, ioFailed>>

\* the handler without its save: the exit alone
KeyboardInterruptHandlerNoSave(hs) ==
    /\ UNCHANGED <<ckptFile, ckptOk, ioFailed>>
    /\ pc' = "Failed"
    /\ exitCode' = 1
    /\ cause' = "interrupt"

\* except KeyboardInterrupt (214-219)
KeyboardInterruptHandler(hs) ==
    /\ FlushCheckpoint(hs)
    /\ pc' = "Failed"
    /\ exitCode' = 1
    /\ cause' = "interrupt"

\* the handler ending the process as a success
FatalHandlerExitsZero(hs) ==
    /\ FlushCheckpoint(hs)
    /\ pc' = "Failed"
    /\ exitCode' = 0
    /\ cause' = "fatal"

\* except Exception (221-227)
FatalHandler(hs) ==
    /\ FlushCheckpoint(hs)
    /\ pc' = "Failed"
    /\ exitCode' = 1
    /\ cause' = "fatal"

(***************************************************************************)
(* main.py 122-139: load the checkpoint, launch the browser.               *)
(***************************************************************************)
LoadedAtStart == IF ckptPath /\ ckptFile.exists THEN load_checkpoint(ckptFile) ELSE <<>>

LoadAndLaunch ==
    /\ pc = "Init"
    /\ loaded' = LoadedAtStart
    /\ horses' = LoadedAtStart
    /\ pc' = "TopLevelScrape"
    /\ UNCHANGED <<args, scrapeReturned, card, ckptPath, interval, topline, i, ckptFile, outFile, exitCode,
                   cause, run, prev, navigated, visited, failedEntrants,
                   periodicSaves, ioFailed, ckptOk, outWritten>>
    /\ UNCHANGED nonCrawlVars

\* sync_playwright() or chromium.launch raises: handled by except Exception
LaunchFails ==
    /\ pc = "Init"
    /\ loaded' = LoadedAtStart
    /\ horses' = LoadedAtStart
    /\ FatalHandler(LoadedAtStart)
    /\ UNCHANGED <<args, scrapeReturned, card, ckptPath, interval, topline, i, outFile, run, prev,
                   navigated, visited, failedEntrants, periodicSaves, outWritten>>
    /\ UNCHANGED nonCrawlVars

(***************************************************************************)
(* main.py 141-155: the race card, or the checkpoint converted back.       *)
(***************************************************************************)
\* RaceCardScraper.scrape_race when an attempt succeeds: one ToplineData per
\* row that _scrape_race_table extracts.  The card of the model is that list
\* of rows: it is empty when no table is located (racecard.py 67-69), when
\* the column map is empty (73-75) and when no row can be extracted (82-98).
ScrapedTopline ==
    [k \in 1..Len(card) |->
        ToplineData(k, <<>>, <<>>, "", IF card[k] THEN SomeUrl ELSE EmptyUrl)]

\* 149-152: model_dump of the record, detail_url = None, which the validator turns into ""
ToplineFromHorse(h) == ToplineData(h.no, h.inj, h.past, h.prof, EmptyUrl)

\* an empty race card ends the run as a failure
AfterToplineFailsOnEmpty(t) == IF t # <<>> THEN "DetailFetch" ELSE "Failed"

\* 155: if topline_data, the loop; else straight to the final output
AfterTopline(t) == IF t # <<>> THEN "DetailFetch" ELSE "Finalize"

ScrapeRaceOk ==
    /\ pc = "TopLevelScrape"
    /\ horses = <<>>
    /\ topline' = ScrapedTopline
    /\ pc' = AfterTopline(ScrapedTopline)
    /\ i' = 1
    /\ scrapeReturned' = TRUE
    /\ UNCHANGED <<args, card, ckptPath, interval, horses, ckptFile, outFile, exitCode,
                   cause, run, prev, loaded, navigated, visited, failedEntrants,
                   periodicSaves, ioFailed, ckptOk, outWritten>>
    /\ UNCHANGED nonCrawlVars

\* retry_with_backoff re-raises after the last attempt: handled by except Exception
ScrapeRaceFails ==
    /\ pc = "TopLevelScrape"
    /\ horses = <<>>
    /\ FatalHandler(horses)
    /\ UNCHANGED <<args, scrapeReturned, card, ckptPath, interval, horses, topline, i, outFile, run, prev,
                   loaded, navigated, visited, failedEntrants, periodicSaves, outWritten>>
    /\ UNCHANGED nonCrawlVars

ResumeFromCheckpoint ==
    /\ pc = "TopLevelScrape"
    /\ horses # <<>>
    /\ topline' = [k \in 1..Len(horses) |-> ToplineFromHorse(horses[k])]
    /\ pc' = "DetailFetch"
    /\ i' = 1
    /\ UNCHANGED <<args, scrapeReturned, card, ckptPath, interval, horses, ckptFile, outFile, exitCode,
                   cause, run, prev, loaded, navigated, visited, failedEntrants,
                   periodicSaves, ioFailed, ckptOk, outWritten>>
    /\ UNCHANGED nonCrawlVars

(***************************************************************************)
(* main.py 165-202: one iteration of the per-entrant loop, entrant i.      *)
(***************************************************************************)
\* 168-169: the record at this position already has injuries and past runs
AlreadyComplete(k) ==
    /\ ckptPath
    /\ k <= Len(horses)
    /\ horses[k].inj # <<>>
    /\ horses[k].past # <<>>

\* the complete entrant is scraped again instead of being skipped
BranchRefetchesComplete(k) ==
    IF AlreadyComplete(k) THEN "fetch"
    ELSE IF topline[k].detail_url # EmptyUrl THEN "fetch"
    ELSE "nourl"

\* 168-174: what the iteration does with entrant k
Branch(k) ==
    IF AlreadyComplete(k) THEN "skip"
    ELSE IF topline[k].detail_url # EmptyUrl THEN "fetch"
    ELSE "nourl"

\* 178-182: model_dump of the topline, update with the details, HorseRecord(**merged)
Merge(t, d) == HorseRecord(t.no, d.inj, d.past, d.prof)

\* 185-188: update or add
Put(hs, k, rec) == IF k <= Len(hs) THEN [hs EXCEPT ![k] = rec] ELSE Append(hs, rec)

\* where the for statement goes after position k
AfterEntrant(k) == IF k + 1 > Len(topline) THEN "Finalize" ELSE "DetailFetch"

\* 168-171: skip, continue
DetailSkip ==
    /\ pc = "DetailFetch"
    /\ Branch(i) = "skip"
    /\ visited' = Append(visited, i)
    /\ i' = i + 1
    /\ pc' = AfterEntrant(i)
    /\ UNCHANGED <<args, scrapeReturned, card, ckptPath, interval, horses, topline, ckptFile, outFile,
                   exitCode, cause, run, prev, loaded, navigated, failedEntrants,
                   periodicSaves, ioFailed, ckptOk, outWritten>>
    /\ UNCHANGED nonCrawlVars

\* 174-190: the detail scrape returns, the record is merged and stored
DetailFetchOk ==
    /\ pc = "DetailFetch"
    /\ Branch(i) = "fetch"
    /\ \E d \in DetailResults : horses' = Put(horses, i, Merge(topline[i], d))
    /\ navigated' = navigated \cup {i}
    /\ visited' = Append(visited, i)
    /\ pc' = "CheckpointMaybe"
    /\ UNCHANGED <<args, scrapeReturned, card, ckptPath, interval, topline, i, ckptFile, outFile,
                   exitCode, cause, run, prev, loaded, failedEntrants,
                   periodicSaves, ioFailed, ckptOk, outWritten>>
    /\ UNCHANGED nonCrawlVars

\* the error of the entrant leaves the loop and reaches except Exception of the outer try
DetailFetchFailsAborts ==
    /\ pc = "DetailFetch"
    /\ Branch(i) = "fetch"
    /\ navigated' = navigated \cup {i}
    /\ visited' = Append(visited, i)
    /\ failedEntrants' = failedEntrants \cup {i}
    /\ FatalHandler(horses)
    /\ UNCHANGED <<args, scrapeReturned, card, ckptPath, interval, horses, topline, i, outFile,
                   run, prev, loaded, periodicSaves, outWritten>>
    /\ UNCHANGED nonCrawlVars

\* 175-182 raise (retries exhausted, or the merge fails); 199-202: log, continue
DetailFetchFails ==
    /\ pc = "DetailFetch"
    /\ Branch(i) = "fetch"
    /\ navigated' = navigated \cup {i}
    /\ visited' = Append(visited, i)
    /\ failedEntrants' = failedEntrants \cup {i}
    /\ i' = i + 1
    /\ pc' = AfterEntrant(i)
    /\ UNCHANGED <<args, scrapeReturned, card, ckptPath, interval, horses, topline, ckptFile, outFile,
                   exitCode, cause, run, prev, loaded,
                   periodicSaves, ioFailed, ckptOk, outWritten>>
    /\ UNCHANGED nonCrawlVars

\* 174 is false: nothing is scraped and nothing is stored
DetailNoUrl ==
    /\ pc = "DetailFetch"
    /\ Branch(i) = "nourl"
    /\ visited' = Append(visited, i)
    /\ pc' = "CheckpointMaybe"
    /\ UNCHANGED <<args, scrapeReturned, card, ckptPath, interval, horses, topline, i, ckptFile, outFile,
                   exitCode, cause, run, prev, loaded, navigated, failedEntrants,
                   periodicSaves, ioFailed, ckptOk, outWritten>>
    /\ UNCHANGED nonCrawlVars

\* 193: the test of the periodic save, i being enumerate's index + 1
CheckpointDue == ckptPath /\ i % interval = 0

\* 193-197 with the save
CheckpointSave ==
    /\ pc = "CheckpointMaybe"
    /\ CheckpointDue
    /\ \E w \in WriteOutcomes(ckptFile, horses) :
            /\ ckptFile' = w.file
            /\ ckptOk' = w.ok
            /\ ioFailed' = (ioFailed \/ ~w.ok)
    /\ periodicSaves' = periodicSaves + 1
    /\ i' = i + 1
    /\ pc' = AfterEntrant(i)
    /\ UNCHANGED <<args, scrapeReturned, card, ckptPath, interval, horses, topline, outFile,
                   exitCode, cause, run, prev, loaded, navigated, visited,
                   failedEntrants, outWritten>>
    /\ UNCHANGED nonCrawlVars

\* 193-197 without the save
CheckpointNotDue ==
    /\ pc = "CheckpointMaybe"
    /\ ~CheckpointDue
    /\ i' = i + 1
    /\ pc' = AfterEntrant(i)
    /\ UNCHANGED <<args, scrapeReturned, card, ckptPath, interval, horses, topline, ckptFile, outFile,
                   exitCode, cause, run, prev, loaded, navigated, visited,
                   failedEntrants, periodicSaves, ioFailed, ckptOk, outWritten>>
    /\ UNCHANGED nonCrawlVars

(***************************************************************************)
(* main.py 204-209: save_final_output swallows its errors, so the success  *)
(* messages and the exit with 0 follow whatever the write did.             *)
(***************************************************************************)
Finalize ==
    /\ pc = "Finalize"
    /\ \E w \in WriteOutcomes(outFile, horses) :
            /\ outFile' = w.file
            /\ ioFailed' = (ioFailed \/ ~w.ok)
    /\ outWritten' = TRUE
    /\ pc' = "Done"
    /\ exitCode' = 0
    /\ cause' = "done"
    /\ UNCHANGED <<args, scrapeReturned, card, ckptPath, interval, horses, topline, i, ckptFile,
                   run, prev, loaded, navigated, visited, failedEntrants,
                   periodicSaves, ckptOk>>
    /\ UNCHANGED nonCrawlVars

(***************************************************************************)
(* Ctrl-C while the race card is scraped or inside the per-entrant loop.   *)
(***************************************************************************)
Interrupt ==
    /\ pc \in {"TopLevelScrape", "DetailFetch", "CheckpointMaybe"}
    /\ KeyboardInterruptHandler(horses)
    /\ UNCHANGED <<args, scrapeReturned, card, ckptPath, interval, horses, topline, i, outFile, run, prev,
                   loaded, navigated, visited, failedEntrants, periodicSaves, outWritten>>
    /\ UNCHANGED nonCrawlVars

(***************************************************************************)
(* The command is run again with the same arguments: the files stay, the   *)
(* process state starts afresh.                                            *)
(***************************************************************************)
Restart ==
    /\ pc \in {"Done", "Failed"}
    /\ run < MaxRuns
    /\ run' = run + 1
    /\ prev' = cause
    /\ pc' = "Init"
    /\ horses' = <<>>
    /\ topline' = <<>>
    /\ i' = 1
    /\ exitCode' = -1
    /\ cause' = "none"
    /\ loaded' = <<>>
    /\ navigated' = {}
    /\ visited' = <<>>
    /\ failedEntrants' = {}
    /\ periodicSaves' = 0
    /\ ioFailed' = FALSE
    /\ ckptOk' = TRUE
    /\ outWritten' = FALSE
    /\ scrapeReturned' = FALSE
    /\ UNCHANGED <<args, card, ckptPath, interval, ckptFile, outFile>>
    /\ UNCHANGED nonCrawlVars

Next ==
    \/ LoadAndLaunch
    \/ LaunchFails
    \/ ScrapeRaceOk
    \/ ScrapeRaceFails
    \/ ResumeFromCheckpoint
    \/ DetailSkip
    \/ DetailFetchOk
    \/ DetailFetchFails
    \/ DetailNoUrl
    \/ CheckpointSave
    \/ CheckpointNotDue
    \/ Finalize
    \/ Interrupt
    \/ Restart

Spec == Init /\ [][Next]_vars

(***************************************************************************)
(* horse_detail.py 159-349: the past runs of one detail page.              *)
(*                                                                         *)
(* A table is abstracted to what the code reads of it: the number of       *)
(* comprehensive and of basic indicators found in its header row (fc, fb), *)
(* its number of rows (nrows, header included), and the set of data rows   *)
(* the row tests reject (bad: too few cells, or none of the key fields).   *)
(* The page text is abstracted to its number of "<number>: <number>"       *)
(* matches.  A record of the result names where it was read.               *)
(***************************************************************************)
Min(a, b) == IF a < b THEN a ELSE b

HeaderCounts ==
    { [fc |-> ComprehensiveThreshold,     fb |-> BasicThreshold + 2],
      [fc |-> ComprehensiveThreshold - 1, fb |-> BasicThreshold],
      [fc |-> ComprehensiveThreshold - 1, fb |-> BasicThreshold - 1] }

BadRowSets(n) == { {}, {1} \cap (1..(n - 1)), 1..(n - 1) }

Tables ==
    UNION { { [fc |-> h.fc, fb |-> h.fb, nrows |-> n, bad |-> b] :
                h \in HeaderCounts, b \in BadRowSets(n) } : n \in 0..MaxRows }

MatchCounts == {0, MaxMatches - 1, MaxMatches}

\* 204 and 253: rows[1:7], the data rows that are looked at
DataRows(tb) == [r \in 1..Min(tb.nrows - 1, MaxPastRunRows) |-> r]

\* 206-238 and 255-278: one record per row that passes the cell-count and the any([...]) tests
RowsKept(tb, t, kind) ==
    LET kept == SelectSeq(DataRows(tb), LAMBDA r : r \notin tb.bad)
    IN  [k \in 1..Len(kept) |-> [kind |-> kind, t |-> t, r |-> kept[k]]]

\* 167-289: the for loop over the tables, from table t on, acc being past_runs
RECURSIVE ScanTables(_, _, _)
ScanTables(tables, t, acc) ==
    IF t > Len(tables) THEN acc
    ELSE LET tb == tables[t] IN
         IF tb.nrows < 2 THEN ScanTables(tables, t + 1, acc)
         ELSE IF tb.fc >= ComprehensiveThreshold
              THEN ScanTables(tables, t + 1, acc \o RowsKept(tb, t, "comprehensive"))
         ELSE IF tb.fb >= BasicThreshold
              THEN LET acc2 == acc \o RowsKept(tb, t, "basic")
                   IN  IF acc2 # <<>> THEN acc2 ELSE ScanTables(tables, t + 1, acc2)
         ELSE ScanTables(tables, t + 1, acc)

\* 316-341: matches[-6:], one record per match, only position set
RecentMatches(m) ==
    LET first == IF m > MaxPastRunRows THEN m - MaxPastRunRows + 1 ELSE 1
    IN  [k \in 1..(m - first + 1) |-> [kind |-> "text", t |-> 0, r |-> first + k - 1]]

\* 308: page.inner_text() on a Playwright Page, whose inner_text takes the
\* selector as a required argument: the call raises TypeError for every page
PageInnerTextRaises == TRUE

\* 302-349: the error of 308 is caught at 346 and the empty list returned
ParsePastRunsFromProfileText(m) ==
    IF PageInnerTextRaises THEN <<>> ELSE RecentMatches(m)

\* 159-300
ScrapePastRunsFromMainPage(pg) ==
    LET found == ScanTables(pg.tables, 1, <<>>)
    IN  IF found = <<>> THEN ParsePastRunsFromProfileText(pg.matches) ELSE found

InitPastRuns ==
    /\ IdleApp
    /\ IdlePages
    /\ IdleAssemble
    /\ IdleMerge
    /\ pc = "PastRuns"
    /\ card = <<>>
    /\ ckptPath = FALSE
    /\ interval = DefaultCheckpointInterval
    /\ horses = <<>>
    /\ topline = <<>>
    /\ i = 1
    /\ ckptFile = NoFile
    /\ outFile = NoFile
    /\ exitCode = -1
    /\ cause = "none"
    /\ run = 1
    /\ prev = "none"
    /\ loaded = <<>>
    /\ navigated = {}
    /\ visited = <<>>
    /\ failedEntrants = {}
    /\ periodicSaves = 0
    /\ ioFailed = FALSE
    /\ ckptOk = TRUE
    /\ outWritten = FALSE
    /\ args = ExampleArgs
    /\ scrapeReturned = FALSE
    /\ page \in { [tables |-> <<>>, matches |-> m] : m \in MatchCounts }
    /\ past_runs = <<>>
    /\ prDone = FALSE
    /\ IdleRetry
    /\ IdleHeaders

\* the page under test gets one more table
AddTable ==
    /\ pc = "PastRuns"
    /\ ~prDone
    /\ Len(page.tables) < MaxTables
    /\ \E tb \in Tables : page' = [page EXCEPT !.tables = Append(@, tb)]
    /\ UNCHANGED <<past_runs, prDone>>
    /\ UNCHANGED nonPastRunVars

ScrapePastRuns ==
    /\ pc = "PastRuns"
    /\ ~prDone
    /\ past_runs' = ScrapePastRunsFromMainPage(page)
    /\ prDone' = TRUE
    /\ UNCHANGED page
    /\ UNCHANGED nonPastRunVars

NextPastRuns ==
    \/ AddTable
    \/ ScrapePastRuns

SpecPastRuns == InitPastRuns /\ [][NextPastRuns]_vars

(***************************************************************************)
(* main.py 36-110: the command line.  click checks --course against its    *)
(* two choices, ignoring case, and ends the process with status 2 when the *)
(* check fails; main() then validates the date, the course and the race    *)
(* number and ends the process with status 1 at the first that fails.      *)
(***************************************************************************)
VALID_COURSES == {"HV", "ST"}
MinRaceNumber == 1
MaxRaceNumber == 12

\* str.upper on the course codes of the model
Upper(c) == IF c = "hv" THEN "HV" ELSE IF c = "st" THEN "ST" ELSE c

\* the calendar of 2025, which time.strptime checks through datetime.date
DaysInMonth(m) == IF m = 2 THEN 28 ELSE IF m \in {4, 6, 9, 11} THEN 30 ELSE 31

\* utils.py 211-217: time.strptime(date_str, "%Y/%m/%d") does not raise.
\* %Y reads exactly four digits; %m and %d read one or two digits, "9" as
\* well as "09"; nothing may precede or follow.
validate_date_format(d) ==
    /\ d.sep = "/"
    /\ d.ylen = 4
    /\ d.mlen \in {1, 2}
    /\ d.mon \in 1..12
    /\ d.dlen \in {1, 2}
    /\ d.day \in 1..DaysInMonth(d.mon)

\* utils.py 220-223
validate_course(c) == Upper(c) \in VALID_COURSES

\* utils.py 226-228
validate_race_number(n) == MinRaceNumber <= n /\ n <= MaxRaceNumber

\* main.py 40-45: click.Choice(["HV", "ST"], case_sensitive=False)
ClickAccepts(a) == Upper(a.course) \in {"HV", "ST"}

\* main.py 100-110
ArgsValid(a) ==
    /\ validate_date_format(a.date)
    /\ validate_course(a.course)
    /\ validate_race_number(a.raceno)

\* the command lines explored: month and day written with one or two
\* digits, in and out of range; year with two or four digits; "/" or "-"
MonthTexts ==
    { [mon |-> 9, mlen |-> 2], [mon |-> 9, mlen |-> 1], [mon |-> 2, mlen |-> 2],
      [mon |-> 13, mlen |-> 2], [mon |-> 0, mlen |-> 2] }
DayTexts ==
    { [day |-> 17, dlen |-> 2], [day |-> 7, dlen |-> 2], [day |-> 7, dlen |-> 1],
      [day |-> 30, dlen |-> 2], [day |-> 0, dlen |-> 2] }
Dates ==
    { [sep |-> s, ylen |-> y, mon |-> m.mon, mlen |-> m.mlen, day |-> d.day, dlen |-> d.dlen] :
        s \in {"/", "-"}, y \in {2, 4}, m \in MonthTexts, d \in DayTexts }
Courses == {"HV", "ST", "hv", "XX"}
RaceNumbers == {MinRaceNumber - 1, MinRaceNumber, MaxRaceNumber, MaxRaceNumber + 1}
ArgSet == [date : Dates, course : Courses, raceno : RaceNumbers]

\* a checkpoint left by an earlier run
OldCheckpoint == FileOf(<<ModelDump(HorseRecord(1, <<"i">>, <<"r">>, "p"))>>)

InitArgs ==
    /\ IdleApp
    /\ IdlePages
    /\ IdleAssemble
    /\ IdleMerge
    /\ pc = "Args"
    /\ args \in ArgSet
    /\ card = <<TRUE>>
    /\ ckptPath \in BOOLEAN
    /\ interval = DefaultCheckpointInterval
    /\ horses = <<>>
    /\ topline = <<>>
    /\ i = 1
    /\ ckptFile \in {NoFile, CorruptFile, OldCheckpoint}
    /\ outFile = NoFile
    /\ exitCode = -1
    /\ cause = "none"
    /\ run = 1
    /\ prev = "none"
    /\ loaded = <<>>
    /\ navigated = {}
    /\ visited = <<>>
    /\ failedEntrants = {}
    /\ periodicSaves = 0
    /\ ioFailed = FALSE
    /\ ckptOk = TRUE
    /\ outWritten = FALSE
    /\ scrapeReturned = FALSE
    /\ IdlePastRuns
    /\ IdleRetry
    /\ IdleHeaders

\* the process ends with the status st before main() has done anything else
UsageExit(st) ==
    /\ pc' = "Failed"
    /\ exitCode' = st
    /\ cause' = "usage"
    /\ UNCHANGED <<args, scrapeReturned, card, ckptPath, interval, horses, topline, i,
                   ckptFile, outFile, run, prev, loaded, navigated, visited,
                   failedEntrants, periodicSaves, ioFailed, ckptOk, outWritten>>
    /\ UNCHANGED nonCrawlVars

\* click refuses the course: usage error
ArgsRejectedByClick ==
    /\ pc = "Args"
    /\ ~ClickAccepts(args)
    /\ UsageExit(2)

\* 100-110: one of the three validations fails, sys.exit(1)
ArgsRejected ==
    /\ pc = "Args"
    /\ ClickAccepts(args)
    /\ ~ArgsValid(args)
    /\ UsageExit(1)

\* 100-110: the three validations pass, main() goes on to its try block
ArgsAccepted ==
    /\ pc = "Args"
    /\ ClickAccepts(args)
    /\ ArgsValid(args)
    /\ pc' = "Init"
    /\ UNCHANGED <<args, scrapeReturned, card, ckptPath, interval, horses, topline, i,
                   ckptFile, outFile, exitCode, cause, run, prev, loaded, navigated,
                   visited, failedEntrants, periodicSaves, ioFailed, ckptOk, outWritten>>
    /\ UNCHANGED nonCrawlVars

NextArgs ==
    \/ ArgsRejectedByClick
    \/ ArgsRejected
    \/ ArgsAccepted
    \/ LoadAndLaunch
    \/ LaunchFails

SpecArgs == InitArgs /\ [][NextArgs]_vars

(***************************************************************************)
(* utils.py 55-92: retry_with_backoff.  The errors of func are told apart  *)
(* by the attempt that raised them; so are its return values.              *)
(***************************************************************************)
\* constants.py 56-74: a new dict on every call, read from the environment
\* (here: no variable set, the defaults).  What main() stores in the dict it
\* got (main.py 113-115) is not in it.
get_config ==
    [max_retries         |-> DefaultMaxRetries,
     retry_base_delay_ms |-> DefaultRetryBaseDelayMs,
     retry_max_delay_ms  |-> DefaultRetryMaxDelayMs]

\* Python's "x or dflt": None and 0 are both false
OrDefault(x, dflt) == IF x = NoneArg \/ x = 0 THEN dflt ELSE x

\* 64-66
EffectiveMaxRetries == OrDefault(call.max_retries, get_config.max_retries)
EffectiveBaseDelay  == OrDefault(call.base_delay_ms, get_config.retry_base_delay_ms)
EffectiveMaxDelay   == OrDefault(call.max_delay_ms, get_config.retry_max_delay_ms)

RECURSIVE Pow2(_)
Pow2(n) == IF n = 0 THEN 1 ELSE 2 * Pow2(n - 1)

\* the delay without the doubling
DelayMsNoBackoff(base, a, jitter, maxd) == Min(base + jitter, maxd)

\* 80-83
DelayMs(base, a, jitter, maxd) == Min(base * Pow2(a) + jitter, maxd)

\* 82: random.randint(0, 1000), the draws that are explored
JitterDraws == {0, JitterMaxMs \div 2, JitterMaxMs}

\* one more turn of the loop
LoopRangeOneMore(maxr) == maxr + 2

\* 73: range(max_retries + 1)
LoopRange(maxr) == maxr + 1

\* a sleep after every failure
HasNextAttemptAlways(a, maxr) == TRUE

\* 79
HasNextAttempt(a, maxr) == a < maxr

\* the first error is kept
KeepFirstException(prevExc, a) == IF prevExc = NoException THEN a ELSE prevExc

\* 78: last_exception = e
RecordException(prevExc, a) == a

\* the arguments of the calls explored
BaseDelayArgs == {NoneArg, 100, 2000}
MaxDelayArgs  == {NoneArg, 1500}

\* racecard.py 59 and horse_detail.py 71 pass func and logger only
CallsOf(c) ==
    IF c = "direct"
    THEN [max_retries : {NoneArg} \cup 0..MaxRetryArg,
          base_delay_ms : BaseDelayArgs, max_delay_ms : MaxDelayArgs]
    ELSE {[max_retries |-> NoneArg, base_delay_ms |-> NoneArg, max_delay_ms |-> NoneArg]}

InitRetry ==
    /\ IdleApp
    /\ IdlePages
    /\ IdleAssemble
    /\ IdleMerge
    /\ IdleCrawl
    /\ IdlePastRuns
    /\ IdleHeaders
    /\ caller \in {"scrape_race", "scrape_horse_details", "direct"}
    /\ cliMaxRetries \in 0..MaxRetryArg
    /\ call \in CallsOf(caller)
    /\ attempt = 0
    /\ sleeps = <<>>
    /\ last_exception = NoException
    /\ rpc = "call"
    /\ retryResult = NoException

\* 74-75: func returns, and so does retry_with_backoff
AttemptSucceeds ==
    /\ rpc = "call"
    /\ attempt < LoopRange(EffectiveMaxRetries)
    /\ attempt' = attempt + 1
    /\ rpc' = "returned"
    /\ retryResult' = attempt
    /\ UNCHANGED <<caller, cliMaxRetries, call, sleeps, last_exception>>
    /\ UNCHANGED nonRetryVars

\* 92, when the loop is over
LoopEnd(nextAttempt, exc) ==
    IF nextAttempt < LoopRange(EffectiveMaxRetries)
    THEN UNCHANGED <<rpc, retryResult>>
    ELSE rpc' = "raised" /\ retryResult' = exc

\* 76-88: func raises, another attempt is left: sleep, then go round
AttemptFailsThenSleeps ==
    /\ rpc = "call"
    /\ attempt < LoopRange(EffectiveMaxRetries)
    /\ HasNextAttempt(attempt, EffectiveMaxRetries)
    /\ last_exception' = RecordException(last_exception, attempt)
    /\ \E j \in JitterDraws :
          sleeps' = Append(sleeps,
                       [after |-> attempt, jitter |-> j,
                        ms |-> DelayMs(EffectiveBaseDelay, attempt, j, EffectiveMaxDelay)])
    /\ attempt' = attempt + 1
    /\ LoopEnd(attempt + 1, RecordException(last_exception, attempt))
    /\ UNCHANGED <<caller, cliMaxRetries, call>>
    /\ UNCHANGED nonRetryVars

\* 76-79, 89-92: func raises, no attempt is left: log, raise last_exception
AttemptFailsNoSleep ==
    /\ rpc = "call"
    /\ attempt < LoopRange(EffectiveMaxRetries)
    /\ ~HasNextAttempt(attempt, EffectiveMaxRetries)
    /\ last_exception' = RecordException(last_exception, attempt)
    /\ attempt' = attempt + 1
    /\ LoopEnd(attempt + 1, RecordException(last_exception, attempt))
    /\ UNCHANGED <<caller, cliMaxRetries, call, sleeps>>
    /\ UNCHANGED nonRetryVars

NextRetry ==
    \/ AttemptSucceeds
    \/ AttemptFailsThenSleeps
    \/ AttemptFailsNoSleep

SpecRetry == InitRetry /\ [][NextRetry]_vars

(***************************************************************************)
(* selectors.py 89-122: _header_matches.  A text is the sequence of its    *)
(* characters; an ideograph is named by an ASCII token.                    *)
(***************************************************************************)
\* the characters of U+4E00..U+9FFF that occur in the labels
Ideographs ==
    {"bian", "hao4", "ma", "ming", "pai", "wei", "ti", "zhong", "fu", "bang",
     "ping", "fen", "ling", "ci", "jin", "ji1", "lian", "shi", "you", "xian",
     "can", "sai", "xu", "pei", "bei", "qi", "rang", "du", "ying", "zhi",
     "xi", "hao3", "pi", "guo", "ji4"}
Letters == {"a", "H", "o", "r", "s", "e", "N"}
Digits  == {"6"}
\* what \w matches: letters of any script, digits and the underscore
WordChars == Ideographs \cup Letters \cup Digits \cup {"_"}

\* constants.py 13-32
EXPECTED_HEADERS ==
    << <<"bian", "hao4">>,
       <<"ma", "ming">>,
       <<"pai", "wei", "ti", "zhong">>,
       <<"fu", "bang">>,
       <<"ping", "fen">>,
       <<"ma", "ling">>,
       <<"6", "ci", "jin", "ji1">>,
       <<"lian", "ma", "shi">>,
       <<"you", "xian", "can", "sai", "ci", "xu">>,
       <<"pei", "bei">>,
       <<"qi", "shi">>,
       <<"rang", "bang">>,
       <<"du", "ying">>,
       <<"wei", "zhi">>,
       <<"lian", "ma", "shi", "xi", "hao3">>,
       <<"ma", "pi", "bian", "hao4">>,
       <<"guo", "ji4", "ping", "fen">> >>

\* Python's "x in y" on strings
IsSubstring(x, y) ==
    \E k \in 0..(Len(y) - Len(x)) : SubSeq(y, k + 1, k + Len(x)) = x

\* re.sub(r'[^\w]', '', s)
StripNonWord(s) == SelectSeq(s, LAMBDA c : c \in WordChars)

\* re.sub(r'[^\u4e00-\u9fff]', '', s)
IdeographCore(s) == SelectSeq(s, LAMBDA c : c \in Ideographs)

\* 116-120: some two adjacent ideographs of the expected label occur in the text
WindowOccurs(expected_core, actual_core) ==
    /\ Len(expected_core) >= 2
    /\ Len(actual_core) >= 2
    /\ \E k \in 0..(Len(expected_core) - 2) :
          IsSubstring(SubSeq(expected_core, k + 1, k + 2), actual_core)

\* the match without its two-ideograph window
HeaderMatchesNoWindow(expected_, actual_) ==
    IF expected_ = actual_ THEN TRUE
    ELSE IF IsSubstring(expected_, actual_) \/ IsSubstring(actual_, expected_) THEN TRUE
    ELSE IF StripNonWord(expected_) = StripNonWord(actual_) THEN TRUE
    ELSE LET expected_core == IdeographCore(expected_)
             actual_core   == IdeographCore(actual_)
         IN  IF expected_core # <<>> /\ actual_core # <<>>
             THEN IsSubstring(expected_core, actual_core) \/ IsSubstring(actual_core, expected_core)
             ELSE FALSE

\* 89-122
HeaderMatches(expected_, actual_) ==
    IF expected_ = actual_ THEN TRUE
    ELSE IF IsSubstring(expected_, actual_) \/ IsSubstring(actual_, expected_) THEN TRUE
    ELSE IF StripNonWord(expected_) = StripNonWord(actual_) THEN TRUE
    ELSE LET expected_core == IdeographCore(expected_)
             actual_core   == IdeographCore(actual_)
         IN  IF expected_core # <<>> /\ actual_core # <<>>
             THEN IF IsSubstring(expected_core, actual_core)
                        \/ IsSubstring(actual_core, expected_core)
                  THEN TRUE
                  ELSE WindowOccurs(expected_core, actual_core)
             ELSE FALSE

\* tests/test_parsing_unit.py 146-164: the pairs of test_header_matching
MaHao        == <<"ma", "hao4">>
MaHaoHorseNo == <<"ma", "hao4", " ", "(", "H", "o", "r", "s", "e", " ", "N", "o", ".", ")">>
QiShi        == <<"qi", "shi">>
ExamplePairs ==
    { <<MaHao, MaHao>>, <<MaHao, MaHaoHorseNo>>, <<MaHao, QiShi>>, <<<<>>, <<>>>> }

\* the characters the texts of SpecMatch are built of: two ideographs, a
\* letter, the underscore, a space
MatchAlphabet == {"ma", "hao4", "a", "_", " "}

InitMatch ==
    /\ IdleApp
    /\ IdlePages
    /\ IdleAssemble
    /\ IdleMerge
    /\ IdleCrawl
    /\ IdlePastRuns
    /\ IdleRetry
    /\ \E p \in ExamplePairs : expected = p[1] /\ actual = p[2]
    /\ matchResult = FALSE
    /\ mDone = FALSE
    /\ doc = <<>>
    /\ located = 0
    /\ column_map = <<>>
    /\ tDone = FALSE

\* the expected label gets one more character
ExtendExpected ==
    /\ ~mDone
    /\ Len(expected) < MaxTextLen
    /\ \E c \in MatchAlphabet : expected' = Append(expected, c)
    /\ UNCHANGED <<actual, matchResult, mDone, doc, located, column_map, tDone>>
    /\ UNCHANGED nonHdrVars

\* the observed text gets one more character
ExtendActual ==
    /\ ~mDone
    /\ Len(actual) < MaxTextLen
    /\ \E c \in MatchAlphabet : actual' = Append(actual, c)
    /\ UNCHANGED <<expected, matchResult, mDone, doc, located, column_map, tDone>>
    /\ UNCHANGED nonHdrVars

\* the call _header_matches(expected, actual)
Match ==
    /\ ~mDone
    /\ matchResult' = HeaderMatches(expected, actual)
    /\ mDone' = TRUE
    /\ UNCHANGED <<expected, actual, doc, located, column_map, tDone>>
    /\ UNCHANGED nonHdrVars

NextMatch ==
    \/ ExtendExpected
    \/ ExtendActual
    \/ Match

SpecMatch == InitMatch /\ [][NextMatch]_vars

(***************************************************************************)
(* selectors.py 19-87 and 124-156: the race table of a page.  A table is   *)
(* what the two methods read of it: the texts of the cells of its first    *)
(* row (row, normalised, "" for a cell without text), whether these cells  *)
(* are th elements (rowIsTh), and the texts of the th elements of its      *)
(* other rows (otherTh).                                                   *)
(***************************************************************************)
BianHao     == EXPECTED_HEADERS[1]
MaMing      == EXPECTED_HEADERS[2]
MaPiBianHao == EXPECTED_HEADERS[16]

\* the texts the cells of a first row are drawn from: four labels, a cell
\* without text and a text that matches no label
HeaderTexts == {BianHao, MaPiBianHao, MaMing, QiShi, <<>>, <<"N", "o">>}

\* the tables explored: a first row of td cells; a first row of th cells;
\* a first row of th cells and one more th cell further down
TableKinds ==
    { [rowIsTh |-> FALSE, otherTh |-> <<>>],
      [rowIsTh |-> TRUE,  otherTh |-> <<>>],
      [rowIsTh |-> TRUE,  otherTh |-> <<QiShi>>] }

\* 57: table.query_selector_all("th"), in document order
ThCells(tb) == (IF tb.rowIsTh THEN tb.row ELSE <<>>) \o tb.otherTh

\* 57-64: the th cells of the table, or without any the cells of the first row
HeaderCells(tb) == IF ThCells(tb) # <<>> THEN ThCells(tb) ELSE tb.row

\* _header_matches(EXPECTED_HEADERS[j], text) for every expected header and
\* every text of the model, worked out once
MatchingHeaders ==
    [text \in HeaderTexts \cup {EXPECTED_HEADERS[j] : j \in 1..Len(EXPECTED_HEADERS)} |->
        { j \in 1..Len(EXPECTED_HEADERS) : HeaderMatches(EXPECTED_HEADERS[j], text) }]

\* 76-80: the expected headers that some header text matches
FoundHeaders(tb) ==
    LET header_texts == SelectSeq(HeaderCells(tb), LAMBDA t : t # <<>>)
    IN  { j \in 1..Len(EXPECTED_HEADERS) :
            \E k \in 1..Len(header_texts) : j \in MatchingHeaders[header_texts[k]] }

\* two matching headers are enough
TableHasHeadersTwo(tb) == Cardinality(FoundHeaders(tb)) >= MinHeadersFound - 1

\* 53-87, called with EXPECTED_HEADERS (racecard.py 66)
TableHasHeaders(tb) == Cardinality(FoundHeaders(tb)) >= MinHeadersFound

\* 32-49: the tables in document order, from table t on; 0 stands for None
RECURSIVE FindFrom(_, _)
FindFrom(tables, t) ==
    IF t > Len(tables) THEN 0
    ELSE IF TableHasHeaders(tables[t]) THEN t
    ELSE FindFrom(tables, t + 1)

\* 19-51
find_table_by_headers(tables) == FindFrom(tables, 1)

\* 145-148: the first expected header that matches the text, 0 when none does
FirstExpected(text) ==
    LET hits == MatchingHeaders[text]
    IN  IF hits = {} THEN 0 ELSE CHOOSE j \in hits : \A h \in hits : j <= h

\* 147: column_map[expected] = col_index
Assign(m, label, col) ==
    [x \in DOMAIN m \cup {label} |-> IF x = label THEN col ELSE m[x]]

\* 139-148: the cells from position k on, m being column_map; col_index is k - 1
RECURSIVE MapFrom(_, _, _)
MapFrom(cells, k, m) ==
    IF k > Len(cells) THEN m
    ELSE IF cells[k] = <<>> THEN MapFrom(cells, k + 1, m)
    ELSE LET j == FirstExpected(cells[k])
         IN  IF j = 0 THEN MapFrom(cells, k + 1, m)
             ELSE MapFrom(cells, k + 1, Assign(m, EXPECTED_HEADERS[j], k - 1))

\* 124-156, called with EXPECTED_HEADERS (racecard.py 72)
get_header_column_map(tb) == MapFrom(tb.row, 1, <<>>)

\* the cells added one by one (a full header row is added whole)
RECURSIVE TotalCells(_)
TotalCells(tables) ==
    IF tables = <<>> THEN 0
    ELSE (IF Head(tables).row = EXPECTED_HEADERS THEN 0 ELSE Len(Head(tables).row))
         + TotalCells(Tail(tables))

InitTable ==
    /\ IdleApp
    /\ IdlePages
    /\ IdleAssemble
    /\ IdleMerge
    /\ IdleCrawl
    /\ IdlePastRuns
    /\ IdleRetry
    /\ expected = <<>>
    /\ actual = <<>>
    /\ matchResult = FALSE
    /\ mDone = FALSE
    /\ doc = <<>>
    /\ located = 0
    /\ column_map = <<>>
    /\ tDone = FALSE

\* the page gets one more table
AddDocTable ==
    /\ ~tDone
    /\ Len(doc) < MaxDocTables
    /\ \E kind \in TableKinds :
          doc' = Append(doc, [row |-> <<>>, rowIsTh |-> kind.rowIsTh,
                              otherTh |-> kind.otherTh])
    /\ UNCHANGED <<expected, actual, matchResult, mDone, located, column_map, tDone>>
    /\ UNCHANGED nonHdrVars

\* the page gets a table whose first row has one cell for each expected
\* header (all th), with exactly its text, in the order of constants.py 13-32
AddFullHeaderTable ==
    /\ ~tDone
    /\ Len(doc) < MaxDocTables
    /\ doc' = Append(doc, [row |-> EXPECTED_HEADERS, rowIsTh |-> TRUE, otherTh |-> <<>>])
    /\ UNCHANGED <<expected, actual, matchResult, mDone, located, column_map, tDone>>
    /\ UNCHANGED nonHdrVars

\* the first row of the last table gets one more cell
AddCell ==
    /\ ~tDone
    /\ doc # <<>>
    /\ doc[Len(doc)].row # EXPECTED_HEADERS
    /\ TotalCells(doc) < MaxCells
    /\ \E t \in HeaderTexts : doc' = [doc EXCEPT ![Len(doc)].row = Append(@, t)]
    /\ UNCHANGED <<expected, actual, matchResult, mDone, located, column_map, tDone>>
    /\ UNCHANGED nonHdrVars

\* find_table_by_headers(EXPECTED_HEADERS) on the page, and
\* get_header_column_map(table, EXPECTED_HEADERS) of each of its tables
LocateAndMap ==
    /\ ~tDone
    /\ located' = find_table_by_headers(doc)
    /\ column_map' = [t \in 1..Len(doc) |-> get_header_column_map(doc[t])]
    /\ tDone' = TRUE
    /\ UNCHANGED <<expected, actual, matchResult, mDone, doc>>
    /\ UNCHANGED nonHdrVars

NextTable ==
    \/ AddDocTable
    \/ AddFullHeaderTable
    \/ AddCell
    \/ LocateAndMap

SpecTable == InitTable /\ [][NextTable]_vars

(***************************************************************************)
(* Record assembly (models.py, main.py 178-182).  A Python value is a      *)
(* tagged record; a dict is a function from the keys it holds.  The fields *)
(* of a record are named by transliteration: ma_hao (horse number),        *)
(* ma_pi_ID (horse id), lian_ma_shi_xi_hao (trainer preference),           *)
(* ma_pi_ji_ben_zi_liao (profile), shang_bing_ji_lu (injury records),      *)
(* wang_ji_ji_lu (past runs).  The other scalar fields of the schema are   *)
(* declared as ma_hao is and are represented by it.                        *)
(***************************************************************************)
PyNone        == [py |-> "None"]
PyStr(s)      == [py |-> "str", v |-> s]
PyInt(n)      == [py |-> "int", v |-> n]
PyFloat(w, f) == [py |-> "float", v |-> <<w, f>>]
PyBool(b)     == [py |-> "bool", v |-> b]
PyList(xs)    == [py |-> "list", v |-> xs]

\* str(v) of a scalar: the decimal digits of a number, True / False
str(v) ==
    CASE v.py = "str"   -> v.v
      [] v.py = "int"   -> ToString(v.v)
      [] v.py = "float" -> ToString(v.v[1]) \o "." \o ToString(v.v[2])
      [] v.py = "bool"  -> IF v.v THEN "True" ELSE "False"

\* models.py 115-123: the "before" validator of every field
convert_to_string(v) ==
    IF v.py = "None" THEN PyStr("")
    ELSE IF v.py = "list" THEN v
    ELSE PyStr(str(v))

ScalarFields      == {"ma_hao", "ma_pi_ID", "lian_ma_shi_xi_hao", "ma_pi_ji_ben_zi_liao"}
ListFields        == {"shang_bing_ji_lu", "wang_ji_ji_lu"}
HorseRecordFields == ScalarFields \cup ListFields
ToplineDataFields == HorseRecordFields \cup {"detail_url"}

\* models.py 10-11, 21-22: the fields of the element models kept here
InjuryRecordFields  == {"date", "description"}
PastRunRecordFields == {"race_date", "position"}
ElementFields(f) ==
    IF f = "shang_bing_ji_lu" THEN InjuryRecordFields ELSE PastRunRecordFields

\* models.py 93-112: Field(default=...) of each field
FieldDefault(f) ==
    IF f = "lian_ma_shi_xi_hao" THEN PyStr("1")
    ELSE IF f \in ListFields THEN PyList(<<>>)
    ELSE IF f = "detail_url" THEN PyNone
    ELSE PyStr("")

\* an element of a list field: a model instance is kept, a dict becomes the
\* model with the default "" for every key it lacks
ElementOf(f, e) ==
    [k \in ElementFields(f) |-> IF k \in DOMAIN e THEN e[k] ELSE ""]

\* the type check that follows the validator: a str field holds a str, a
\* list field a list
FieldValid(f, v) ==
    IF f \in ListFields THEN v.py = "list" ELSE v.py = "str"

FieldValue(f, v) ==
    IF v.py = "list" /\ f \in ListFields
    THEN PyList([k \in 1..Len(v.v) |-> ElementOf(f, v.v[k])])
    ELSE v

ValidationError == [error |-> PyStr("ValidationError")]

\* cls(**data): keys that are not fields are ignored, a field without a key
\* takes its default (which is not validated), every given value goes
\* through convert_to_string and then the type check
BaseModel(fields, data) ==
    LET given == fields \cap DOMAIN data
        val   == [f \in given |-> convert_to_string(data[f])]
    IN  IF \A f \in given : FieldValid(f, val[f])
        THEN [f \in fields |-> IF f \in given THEN FieldValue(f, val[f])
                                              ELSE FieldDefault(f)]
        ELSE ValidationError

HorseRecordOf(data)  == BaseModel(HorseRecordFields, data)
ToplineDataOf(data)  == BaseModel(ToplineDataFields, data)

\* a dump that leaves the list fields out
ModelDumpScalarsOnly(r) == [f \in DOMAIN r \ ListFields |-> r[f]]

\* record.model_dump(): a dict with one key per field, the elements of the
\* list fields as dicts with one key per element field
model_dump(r) ==
    [f \in DOMAIN r |->
        IF r[f].py = "list"
        THEN PyList([k \in 1..Len(r[f].v) |-> [x \in DOMAIN r[f].v[k] |-> r[f].v[k][x]]])
        ELSE r[f]]

\* merged = topline.copy(); merged.update(detail)
Updated(t, d) ==
    [k \in DOMAIN t \cup DOMAIN d |-> IF k \in DOMAIN d THEN d[k] ELSE t[k]]

\* models.py 78-87, main.py 178-182: the merge of a topline dict and a
\* detail dict into a record
merge(t, d) == HorseRecordOf(Updated(t, d))

(***************************************************************************)
(* The merge on its own: the two dicts are built key by key, then merged.  *)
(***************************************************************************)
MaxListLen == 2

ScalarValues == {PyNone, PyStr("A"), PyInt(1), PyFloat(85, 5), PyBool(TRUE)}
InjuryElements ==
    [k \in 1..MaxListLen |-> [date |-> ToString(k), description |-> "x"]]
ListValues == {PyList(SubSeq(InjuryElements, 1, n)) : n \in 0..MaxListLen}
MergeScalarKeys == {"ma_hao", "lian_ma_shi_xi_hao"}
MergeListKeys   == {"shang_bing_ji_lu"}

ValuesOf(k) ==
    IF k \in MergeScalarKeys THEN ScalarValues
    ELSE IF k \in MergeListKeys THEN ListValues
    ELSE {PyNone}

With(d, k, v) == [x \in DOMAIN d \cup {k} |-> IF x = k THEN v ELSE d[x]]

InitMerge ==
    /\ IdleApp
    /\ IdlePages
    /\ IdleAssemble
    /\ IdleCrawl
    /\ IdlePastRuns
    /\ IdleRetry
    /\ IdleHeaders
    /\ merge_topline = <<>>
    /\ merge_detail = <<>>
    /\ merged_record = <<>>
    /\ mergeDone = FALSE

SetTopline ==
    /\ ~mergeDone
    /\ \E k \in (MergeScalarKeys \cup MergeListKeys \cup {"detail_url"}) \ DOMAIN merge_topline :
       \E v \in ValuesOf(k) :
           merge_topline' = With(merge_topline, k, v)
    /\ UNCHANGED <<merge_detail, merged_record, mergeDone>>
    /\ UNCHANGED nonMergeVars

SetDetail ==
    /\ ~mergeDone
    /\ \E k \in (MergeScalarKeys \cup MergeListKeys) \ DOMAIN merge_detail :
       \E v \in ValuesOf(k) :
           merge_detail' = With(merge_detail, k, v)
    /\ UNCHANGED <<merge_topline, merged_record, mergeDone>>
    /\ UNCHANGED nonMergeVars

MergeCall ==
    /\ ~mergeDone
    /\ merged_record' = merge(merge_topline, merge_detail)
    /\ mergeDone' = TRUE
    /\ UNCHANGED <<merge_topline, merge_detail>>
    /\ UNCHANGED nonMergeVars

NextMerge ==
    \/ SetTopline
    \/ SetDetail
    \/ MergeCall

SpecMerge == InitMerge /\ [][NextMerge]_vars

(***************************************************************************)
(* From a race-card row to a checkpointed record: _extract_horse_data      *)
(* (racecard.py 100-157), the merge with the detail dict (main.py 174-188) *)
(* and the checkpoint file (utils.py 137-184).  Two of the sixteen mapped  *)
(* headers are kept: bian_hao (number) for ma_hao, and                     *)
(* you_xian_can_sai_ci_xu (priority) for lian_ma_shi_xi_hao.               *)
(***************************************************************************)
MaxRecords == 2

\* racecard.py 112-129
field_mapping ==
    {<<"bian_hao", "ma_hao">>, <<"you_xian_can_sai_ci_xu", "lian_ma_shi_xi_hao">>}
MappedHeaders == {m[1] : m \in field_mapping}
HeaderOf(f)   == CHOOSE h \in MappedHeaders : <<h, f>> \in field_mapping

\* a row: the mapped headers the column map holds, the text of their cells,
\* and the detail link ("none", "noid": a link without a horse id, "id")
CellTexts(h) == IF h = "bian_hao" THEN {"7"} ELSE {"", "2"}
ColumnMaps   == {{}, {"bian_hao"}, {"bian_hao", "you_xian_can_sai_ci_xu"}}
RowsOf(cm)   == {[column_map |-> cm, cells |-> c, link |-> l] :
                    c \in {c \in [cm -> {"", "2", "7"}] : \A h \in cm : c[h] \in CellTexts(h)},
                    l \in {"none", "noid", "id"}}
Rows         == UNION {RowsOf(cm) : cm \in ColumnMaps}

\* racecard.py 132-137 without the else branch
MappedFieldsNoElse(r) ==
    [f \in {m[2] : m \in {m \in field_mapping : m[1] \in r.column_map}} |->
        PyStr(r.cells[HeaderOf(f)])]

\* racecard.py 132-137: the cell text of a mapped header, "" for the others
MappedFields(r) ==
    [f \in {m[2] : m \in field_mapping} |->
        IF HeaderOf(f) \in r.column_map THEN PyStr(r.cells[HeaderOf(f)])
                                        ELSE PyStr("")]

\* racecard.py 140-141
WithRequiredDefault(hd) ==
    IF "lian_ma_shi_xi_hao" \notin DOMAIN hd
    THEN With(hd, "lian_ma_shi_xi_hao", PyStr("1"))
    ELSE hd

\* racecard.py 144-150
WithLink(hd, r) ==
    IF r.link = "none" THEN hd
    ELSE IF r.link = "id"
         THEN With(With(hd, "detail_url", PyStr(SomeUrl)), "ma_pi_ID", PyStr("K1"))
         ELSE With(hd, "detail_url", PyStr(SomeUrl))

\* racecard.py 100-153
extract_horse_data(r) ==
    ToplineDataOf(WithLink(WithRequiredDefault(MappedFields(r)), r))

\* horse_detail.py 53-66: the dict scrape_horse_details returns; the horse
\* id is there when the page url holds one, the three other keys always
PastRunElements == <<[race_date |-> "d", position |-> "1"]>>
Details ==
    [id : BOOLEAN, inj : {<<>>, InjuryElements}, past : {<<>>, PastRunElements}]
DetailDict(x) ==
    LET base == [k \in {"wang_ji_ji_lu", "ma_pi_ji_ben_zi_liao", "shang_bing_ji_lu"} |->
                    IF k = "wang_ji_ji_lu" THEN PyList(x.past)
                    ELSE IF k = "shang_bing_ji_lu" THEN PyList(x.inj)
                    ELSE PyStr(IF x.past = <<>> THEN "" ELSE "p")]
    IN  IF x.id THEN With(base, "ma_pi_ID", PyStr("K2")) ELSE base

\* the fields of a record the site gave data for
SuppliedBy(r, x) ==
    {m[2] : m \in {m \in field_mapping : m[1] \in r.column_map}}
    \cup (IF r.link = "id" \/ x.id THEN {"ma_pi_ID"} ELSE {})
    \cup (IF x.past # <<>> THEN {"wang_ji_ji_lu", "ma_pi_ji_ben_zi_liao"} ELSE {})
    \cup (IF x.inj # <<>> THEN {"shang_bing_ji_lu"} ELSE {})

\* json.dump / json.load of a value (utils.py 153-154, 175-176)
JsonOfValue(v) ==
    CASE v.py = "None" -> [js |-> "null"]
      [] v.py = "str"  -> [js |-> "string", v |-> v.v]
      [] v.py = "list" ->
            [js |-> "array",
             v  |-> [k \in 1..Len(v.v) |->
                        [js |-> "object",
                         v  |-> [x \in DOMAIN v.v[k] |-> [js |-> "string", v |-> v.v[k][x]]]]]]
      [] OTHER         -> [js |-> "number", v |-> str(v)]

PyOfJson(j) ==
    CASE j.js = "null"   -> PyNone
      [] j.js = "string" -> PyStr(j.v)
      [] j.js = "array"  ->
            PyList([k \in 1..Len(j.v) |-> [x \in DOMAIN j.v[k].v |-> j.v[k].v[x].v]])

\* utils.py 150-154: the text json.dump writes for the list
CheckpointText(data) ==
    [k \in 1..Len(data) |->
        LET d == model_dump(data[k]) IN [f \in DOMAIN d |-> JsonOfValue(d[f])]]

TruncatedText == <<[truncated |-> [js |-> "null"]]>>

\* utils.py 170-184: [] for a missing file and for any error, else one
\* HorseRecord per object of the file
LoadRecords(file) ==
    IF ~file.exists \/ file.text = TruncatedText THEN <<>>
    ELSE LET recs == [k \in 1..Len(file.text) |->
                         HorseRecordOf([f \in DOMAIN file.text[k] |-> PyOfJson(file.text[k][f])])]
         IN  IF \E k \in 1..Len(recs) : recs[k] = ValidationError THEN <<>> ELSE recs

InitAssemble ==
    /\ IdleApp
    /\ IdlePages
    /\ IdleMerge
    /\ IdleCrawl
    /\ IdlePastRuns
    /\ IdleRetry
    /\ IdleHeaders
    /\ row = <<>>
    /\ horse_data = <<>>
    /\ assembled = <<>>
    /\ supplied = <<>>
    /\ json_file = [exists |-> FALSE, text |-> <<>>]
    /\ saveOk = FALSE
    /\ reloaded = <<>>
    /\ apc = "row"

\* racecard.py 82-95: the next row of the table becomes a ToplineData
ExtractRow ==
    /\ apc = "row"
    /\ Len(assembled) < MaxRecords
    /\ \E r \in Rows :
           /\ row' = r
           /\ horse_data' = extract_horse_data(r)
    /\ apc' = "detail"
    /\ UNCHANGED <<assembled, supplied, json_file, saveOk, reloaded>>
    /\ UNCHANGED nonAsmVars

\* main.py 174-188: the entrant has a detail url and its scrape returned
AssembleRecord ==
    /\ apc = "detail"
    /\ horse_data["detail_url"] \notin {PyNone, PyStr("")}
    /\ \E x \in Details :
           /\ assembled' = Append(assembled, merge(model_dump(horse_data), DetailDict(x)))
           /\ supplied' = Append(supplied, SuppliedBy(row, x))
    /\ apc' = "row"
    /\ UNCHANGED <<row, horse_data, json_file, saveOk, reloaded>>
    /\ UNCHANGED nonAsmVars

\* main.py 174, 199-202: no detail url, or the scrape raised: no record
NoRecord ==
    /\ apc = "detail"
    /\ apc' = "row"
    /\ UNCHANGED <<row, horse_data, assembled, supplied, json_file, saveOk, reloaded>>
    /\ UNCHANGED nonAsmVars

\* utils.py 137-158: the file holds the text of the list, or the write
\* failed and the file is as it was or truncated
SaveCheckpoint ==
    /\ apc = "row"
    /\ \/ /\ saveOk' = TRUE
          /\ json_file' = [exists |-> TRUE, text |-> CheckpointText(assembled)]
       \/ /\ saveOk' = FALSE
          /\ json_file' \in {json_file, [exists |-> TRUE, text |-> TruncatedText]}
    /\ apc' = "saved"
    /\ UNCHANGED <<row, horse_data, assembled, supplied, reloaded>>
    /\ UNCHANGED nonAsmVars

\* utils.py 161-184
LoadCheckpoint ==
    /\ apc = "saved"
    /\ reloaded' = LoadRecords(json_file)
    /\ apc' = "loaded"
    /\ UNCHANGED <<row, horse_data, assembled, supplied, json_file, saveOk>>
    /\ UNCHANGED nonAsmVars

NextAssemble ==
    \/ ExtractRow
    \/ AssembleRecord
    \/ NoRecord
    \/ SaveCheckpoint
    \/ LoadCheckpoint

SpecAssemble == InitAssemble /\ [][NextAssemble]_vars

(***************************************************************************)
(* Browser pages.  Each attempt of scrape_race and of scrape_horse_details *)
(* opens a page and closes it in a finally clause; retry_with_backoff      *)
(* repeats a failed attempt after a sleep; main() closes the browser when  *)
(* it leaves its try block (main.py 130-212).                              *)
(***************************************************************************)
\* a finally clause that closes the page only after a body that returned
AfterFinallyOnSuccessOnly(n, outcome) == IF outcome = "ok" THEN n - 1 ELSE n

\* racecard.py 56-57, horse_detail.py 68-69: finally: page.close()
AfterFinally(n, outcome) == n - 1

InitPages ==
    /\ IdleApp
    /\ IdleCrawl
    /\ IdlePastRuns
    /\ IdleRetry
    /\ IdleHeaders
    /\ IdleMerge
    /\ IdleAssemble
    /\ browser_pages = 0
    /\ pages_opened = 0
    /\ scraper = "scrape_race"
    /\ n_entrants = 0
    /\ entrant_no = 0
    /\ try_no = 0
    /\ attempt_outcome = "none"
    /\ ppc = "attempt"

\* racecard.py 39, horse_detail.py 37: browser.new_page() returns a page,
\* raises, or the interrupt arrives before the try statement is entered
NewPage ==
    /\ ppc = "attempt"
    /\ \/ /\ browser_pages' = browser_pages + 1
          /\ pages_opened' = pages_opened + 1
          /\ ppc' = "in_try"
       \/ /\ ppc' = "failed_attempt"
          /\ UNCHANGED <<browser_pages, pages_opened>>
       \/ /\ browser_pages' = browser_pages + 1
          /\ pages_opened' = pages_opened + 1
          /\ ppc' = "unwinding"
    /\ UNCHANGED <<scraper, n_entrants, entrant_no, try_no, attempt_outcome>>
    /\ UNCHANGED nonPageVars

\* racecard.py 40-54, horse_detail.py 38-66: the body returns, raises an
\* error, or is interrupted from the keyboard
TryBody ==
    /\ ppc = "in_try"
    /\ attempt_outcome' \in {"ok", "error", "interrupt"}
    /\ ppc' = "finally"
    /\ UNCHANGED <<browser_pages, pages_opened, scraper, n_entrants, entrant_no, try_no>>
    /\ UNCHANGED nonPageVars

\* racecard.py 56-57, horse_detail.py 68-69: the finally clause, then the
\* return or the exception goes on to the caller
Finally ==
    /\ ppc = "finally"
    /\ browser_pages' = AfterFinally(browser_pages, attempt_outcome)
    /\ ppc' = CASE attempt_outcome = "ok"        -> "returned"
                [] attempt_outcome = "error"     -> "failed_attempt"
                [] attempt_outcome = "interrupt" -> "unwinding"
    /\ UNCHANGED <<pages_opened, scraper, n_entrants, entrant_no, try_no, attempt_outcome>>
    /\ UNCHANGED nonPageVars

\* utils.py 77-89: an attempt failed and another is left: sleep
SleepBeforeRetry ==
    /\ ppc = "failed_attempt"
    /\ try_no < DefaultMaxRetries
    /\ ppc' = "sleep"
    /\ UNCHANGED <<browser_pages, pages_opened, scraper, n_entrants, entrant_no, try_no,
                   attempt_outcome>>
    /\ UNCHANGED nonPageVars

\* utils.py 72-73: the next turn of the loop calls func again
NextAttempt ==
    /\ ppc = "sleep"
    /\ try_no' = try_no + 1
    /\ ppc' = "attempt"
    /\ UNCHANGED <<browser_pages, pages_opened, scraper, n_entrants, entrant_no,
                   attempt_outcome>>
    /\ UNCHANGED nonPageVars

\* utils.py 91-92: the last attempt failed: the race-card error is fatal
\* (main.py 221), the error of an entrant is logged (main.py 199-202)
RetriesExhausted ==
    /\ ppc = "failed_attempt"
    /\ try_no = DefaultMaxRetries
    /\ ppc' = IF scraper = "scrape_race" THEN "closing" ELSE "next"
    /\ UNCHANGED <<browser_pages, pages_opened, scraper, n_entrants, entrant_no, try_no,
                   attempt_outcome>>
    /\ UNCHANGED nonPageVars

\* main.py 144, 175: the scrape returned; the race card gives the entrants
ScrapeReturned ==
    /\ ppc = "returned"
    /\ IF scraper = "scrape_race"
       THEN n_entrants' \in 0..MaxEntrants
       ELSE UNCHANGED n_entrants
    /\ ppc' = "next"
    /\ UNCHANGED <<browser_pages, pages_opened, scraper, entrant_no, try_no, attempt_outcome>>
    /\ UNCHANGED nonPageVars

\* main.py 165-175: the next entrant: its detail page is scraped, or it has
\* no detail url and is passed over
NextEntrant ==
    /\ ppc = "next"
    /\ entrant_no < n_entrants
    /\ entrant_no' = entrant_no + 1
    /\ scraper' = "scrape_horse_details"
    /\ try_no' = 0
    /\ ppc' \in {"attempt", "next"}
    /\ UNCHANGED <<browser_pages, pages_opened, n_entrants, attempt_outcome>>
    /\ UNCHANGED nonPageVars

\* main.py 204-210: the loop is over
LoopOver ==
    /\ ppc = "next"
    /\ entrant_no = n_entrants
    /\ ppc' = "closing"
    /\ UNCHANGED <<browser_pages, pages_opened, scraper, n_entrants, entrant_no, try_no,
                   attempt_outcome>>
    /\ UNCHANGED nonPageVars

\* the KeyboardInterrupt leaves every frame up to main's try (main.py 211)
Unwind ==
    /\ ppc = "unwinding"
    /\ ppc' = "closing"
    /\ UNCHANGED <<browser_pages, pages_opened, scraper, n_entrants, entrant_no, try_no,
                   attempt_outcome>>
    /\ UNCHANGED nonPageVars

\* main.py 211-212: browser.close() closes the browser and its pages
BrowserClose ==
    /\ ppc = "closing"
    /\ browser_pages' = 0
    /\ ppc' = "ended"
    /\ UNCHANGED <<pages_opened, scraper, n_entrants, entrant_no, try_no, attempt_outcome>>
    /\ UNCHANGED nonPageVars

NextPages ==
    \/ NewPage
    \/ TryBody
    \/ Finally
    \/ SleepBeforeRetry
    \/ NextAttempt
    \/ RetriesExhausted
    \/ ScrapeReturned
    \/ NextEntrant
    \/ LoopOver
    \/ Unwind
    \/ BrowserClose

SpecPages == InitPages /\ [][NextPages]_vars

(***************************************************************************)
(* The web front end (app.py).  Requests are handled concurrently, each in *)
(* its own thread; POST /api/scrape starts a background thread that runs   *)
(* the scraper as a subprocess.  The result of run k is the number k, the  *)
(* error of run k is k as well; 0 stands for None.                         *)
(***************************************************************************)
MaxPosts == 3

InitApp ==
    /\ IdleCrawl
    /\ IdlePastRuns
    /\ IdleRetry
    /\ IdleHeaders
    /\ IdleMerge
    /\ IdleAssemble
    /\ IdlePages
    /\ scraping_status = [is_running |-> FALSE, result |-> 0, error |-> 0]
    /\ posts = <<>>
    /\ threads = <<>>
    /\ got = [status |-> 0, body |-> 0, run |-> 0, state |-> "none"]

\* a POST /api/scrape request arrives and its handler starts
PostArrives ==
    /\ Len(posts) < MaxPosts
    /\ posts' = Append(posts, "check")
    /\ UNCHANGED <<scraping_status, threads, got>>
    /\ UNCHANGED nonAppVars

\* app.py 88-91: the handler reads is_running; 400 when it is set
PostCheck ==
    /\ \E p \in 1..Len(posts) :
          /\ posts[p] = "check"
          /\ posts' = [posts EXCEPT ![p] =
                          IF scraping_status.is_running THEN "already_running"
                                                        ELSE "validate"]
    /\ UNCHANGED <<scraping_status, threads, got>>
    /\ UNCHANGED nonAppVars

\* app.py 93-105: a parameter is missing or out of range: 400
PostInvalid ==
    /\ \E p \in 1..Len(posts) :
          /\ posts[p] = "validate"
          /\ posts' = [posts EXCEPT ![p] = "invalid"]
    /\ UNCHANGED <<scraping_status, threads, got>>
    /\ UNCHANGED nonAppVars

\* app.py 107-115: the handler starts the background thread and answers
PostStartsThread ==
    /\ \E p \in 1..Len(posts) :
          /\ posts[p] = "validate"
          /\ posts' = [posts EXCEPT ![p] = "started"]
    /\ threads' = Append(threads, "created")
    /\ UNCHANGED <<scraping_status, got>>
    /\ UNCHANGED nonAppVars

\* app.py 32-35: the thread sets is_running and clears error
ThreadBegins ==
    /\ \E t \in 1..Len(threads) :
          /\ threads[t] = "created"
          /\ threads' = [threads EXCEPT ![t] = "running"]
    /\ scraping_status' = [scraping_status EXCEPT !.is_running = TRUE, !.error = 0]
    /\ UNCHANGED <<posts, got>>
    /\ UNCHANGED nonAppVars

\* app.py 57-60, 74-76: the subprocess failed, or an exception was raised
ThreadFails ==
    /\ \E t \in 1..Len(threads) :
          /\ threads[t] = "running"
          /\ threads' = [threads EXCEPT ![t] = "failed"]
          /\ scraping_status' = [scraping_status EXCEPT !.error = t, !.is_running = FALSE]
    /\ UNCHANGED <<posts, got>>
    /\ UNCHANGED nonAppVars

\* app.py 62-72: the output was read
ThreadSucceeds ==
    /\ \E t \in 1..Len(threads) :
          /\ threads[t] = "running"
          /\ threads' = [threads EXCEPT ![t] = "succeeded"]
          /\ scraping_status' = [scraping_status EXCEPT !.result = t, !.is_running = FALSE]
    /\ UNCHANGED <<posts, got>>
    /\ UNCHANGED nonAppVars

\* app.py 122-130; got.run and got.state are the last thread started and
\* where it was when the request was answered
GetResult ==
    /\ got' = [status |-> IF scraping_status.result # 0 THEN 200
                          ELSE IF scraping_status.error # 0 THEN 500
                          ELSE 404,
               body   |-> IF scraping_status.result # 0 THEN scraping_status.result
                          ELSE scraping_status.error,
               run    |-> Len(threads),
               state  |-> IF threads = <<>> THEN "none" ELSE threads[Len(threads)]]
    /\ UNCHANGED <<scraping_status, posts, threads>>
    /\ UNCHANGED nonAppVars

NextApp ==
    \/ PostArrives
    \/ PostCheck
    \/ PostInvalid
    \/ PostStartsThread
    \/ ThreadBegins
    \/ ThreadFails
    \/ ThreadSucceeds
    \/ GetResult

SpecApp == InitApp /\ [][NextApp]_vars

(***************************************************************************)
(* Properties.                                                             *)
(***************************************************************************)
\* entrant k of the race card is the one whose record has no = k
Aligned(list) == \A k \in 1..Len(list) : list[k].no = k

Complete(rec) == rec.inj # <<>> /\ rec.past # <<>>

NavigatedEntrants == { topline[p].no : p \in navigated }
FailedEntrantNos  == { topline[p].no : p \in failedEntrants }

\* C1: whatever the tables of the detail page and their rows, the past-run
\* list returned for the entrant has at most 6 entries.
C1_PastRunsAtMostSix == prDone => Len(past_runs) <= MaxPastRunRows

\* C2: at every checkpoint save and at Finalize the in-progress list is
\* index-aligned with the race card: the record at position k is entrant k's.
C2_IndexAligned ==
    /\ (ckptFile.exists /\ ~ckptFile.corrupt) => Aligned(ckptFile.data)
    /\ pc \in {"Finalize", "Done"} => Aligned(horses)

\* C3: after a fresh, uninterrupted crawl the final output holds exactly one
\* record per race-card entrant; an entrant without detail URL or whose fetch
\* failed is present with empty injuries, past runs and profile.
C3_OneRecordPerEntrant ==
    (pc = "Done" /\ loaded = <<>> /\ ~ioFailed) =>
        /\ outFile.exists
        /\ Len(outFile.data) = Len(card)
        /\ \A k \in 1..Len(outFile.data) :
              /\ outFile.data[k].no = k
              /\ (~card[k] \/ k \in FailedEntrantNos) =>
                    /\ outFile.data[k].inj = <<>>
                    /\ outFile.data[k].past = <<>>
                    /\ outFile.data[k].prof = ""

\* C4: a crawl interrupted and then resumed from its checkpoint ends with all
\* race-card entrants in the final output; entrants complete in the checkpoint
\* are not re-fetched, every other entrant with a detail URL is navigated to.
C4_ResumeCoversAllEntrants ==
    (pc = "Done" /\ prev = "interrupt" /\ loaded # <<>> /\ ~ioFailed) =>
        /\ outFile = FileOf(Dumped(horses))
        /\ Len(horses) = Len(card)
        /\ \A e \in 1..Len(card) :
              /\ \E k \in 1..Len(horses) : horses[k].no = e
              /\ IF \E k \in 1..Len(loaded) : loaded[k].no = e /\ Complete(loaded[k])
                 THEN e \notin NavigatedEntrants
                 ELSE card[e] => e \in NavigatedEntrants

\* C5: when resuming, an entrant whose checkpoint record has non-empty
\* injuries and non-empty past runs is not navigated to and its record in the
\* list stays as loaded.
C5_CompleteEntrantsSkipped ==
    \A k \in 1..Len(loaded) :
        Complete(loaded[k]) =>
            /\ k \notin navigated
            /\ k <= Len(horses)
            /\ horses[k] = loaded[k]

C5_Witness ==
    /\ pc = "Done"
    /\ Len(loaded) = 2
    /\ Complete(loaded[1])
    /\ ~Complete(loaded[2])
    /\ visited = <<1, 2>>
    /\ horses = loaded

\* C6: an interrupt in the per-entrant loop with a checkpoint path ends the
\* run with exit status 1 and without final output, after a checkpoint save
\* of exactly the records assembled so far (the file holds them whenever the
\* write itself went through).
C6_InterruptSavesAndExits ==
    (pc = "Failed" /\ cause = "interrupt") =>
        /\ exitCode = 1
        /\ ~outWritten
        /\ (ckptPath /\ ckptOk) => ckptFile = FileOf(Dumped(horses))

\* interrupted after entrant 1 of 3, interval 2: the checkpoint holds 1 record
C6_Witness ==
    /\ pc = "Failed"
    /\ cause = "interrupt"
    /\ run = 1
    /\ Len(card) = 3
    /\ interval = 2
    /\ i = 2
    /\ exitCode = 1
    /\ ckptFile.exists
    /\ Len(ckptFile.data) = 1
    /\ ckptFile.data[1].no = 1

\* C7: with a checkpoint path and interval N, the list is persisted each time
\* the number of completed entrants reaches a multiple of N, also when
\* entrants failed or were skipped on resume.
C7_SavedEveryNth ==
    (ckptPath /\ pc \in {"DetailFetch", "Finalize", "Done"}) =>
        periodicSaves = (i - 1) \div interval

\* C8: a failed write of the checkpoint or of the final output is
\* crawl-fatal: the crawl is in Failed with a non-zero exit status and never
\* reports success.
C8_FailedWriteIsFatal == ioFailed => (pc = "Failed" /\ exitCode = 1)

\* C9: a failure while processing one entrant never aborts the crawl: the
\* loop goes on with the next entrant, the entrants are gone through in
\* race-card order without gaps, and the crawl reaches Finalize and exits 0.
C9_Invariant ==
    /\ visited = [k \in 1..Len(visited) |-> k]
    /\ (failedEntrants # {} /\ pc = "Failed") => cause = "interrupt"
    /\ pc \in {"Finalize", "Done"} => Len(visited) = Len(topline)
    /\ pc = "Done" => exitCode = 0

C9_EntrantFailureNeverAborts ==
    /\ []C9_Invariant
    /\ [][(failedEntrants' # failedEntrants /\ failedEntrants' # {}) =>
            (exitCode' = -1 /\ i' = i + 1 /\ pc' = AfterEntrant(i))]_vars

C9_Witness ==
    /\ pc = "Done"
    /\ exitCode = 0
    /\ failedEntrants = {1}
    /\ navigated = {1, 2, 3}
    /\ visited = <<1, 2, 3>>
    /\ Len(horses) = 2

\* C10: a fatal error outside the per-entrant handling ends the run in
\* Failed, which the process never leaves: the checkpoint, if configured, is
\* flushed with the records assembled so far, no final output is written and
\* the exit status is 1; a crawl that reaches Done exits 0.
C10_Invariant ==
    /\ (pc = "Failed" /\ cause = "fatal") =>
          /\ exitCode = 1
          /\ ~outWritten
          /\ (ckptPath /\ ckptOk) => ckptFile = FileOf(Dumped(horses))
    /\ pc = "Done" => exitCode = 0

C10_FatalErrorFailsTheCrawl ==
    /\ []C10_Invariant
    /\ [][(pc = "Failed" /\ run' = run) => pc' = "Failed"]_vars

\* the race-card scrape gave up in the first run: empty checkpoint, exit 1
C10_Witness ==
    /\ pc = "Failed"
    /\ cause = "fatal"
    /\ run = 1
    /\ card # <<>>
    /\ ckptPath
    /\ ckptFile = FileOf(<<>>)
    /\ exitCode = 1
    /\ ~outWritten

\* the date is written YYYY/MM/DD: four, two and two digits between slashes
InFormatYYYYMMDD(d) == d.sep = "/" /\ d.ylen = 4 /\ d.mlen = 2 /\ d.dlen = 2

\* C11: for every command line whose date is not written YYYY/MM/DD, whose
\* course is not one of the two codes, or whose race number is outside 1..12,
\* the process ends with a non-zero status during validation: it never gets
\* to the checkpoint load, the browser launch or a page.
C11_InvalidInputExitsInInit ==
    (\/ ~InFormatYYYYMMDD(args.date)
     \/ Upper(args.course) \notin {"HV", "ST"}
     \/ args.raceno \notin 1..12) =>
        /\ pc \in {"Args", "Failed"}
        /\ pc = "Failed" => (cause = "usage" /\ exitCode \notin {-1, 0})
        /\ loaded = <<>>
        /\ horses = <<>>

\* C12: when the race-card scrape returns zero rows the crawl does not fail:
\* the per-entrant loop is skipped (no entrant is gone through, no page is
\* opened, no record is assembled), the final output is written with the
\* empty list, and the exit status is 0.
C12_EmptyCardIsNotAFailure ==
    (scrapeReturned /\ topline = <<>>) =>
        /\ pc \in {"Finalize", "Done"}
        /\ visited = <<>>
        /\ navigated = {}
        /\ horses = <<>>
        /\ pc = "Done" =>
              /\ exitCode = 0
              /\ outWritten
              /\ ~ioFailed => outFile = FileOf(<<>>)

C12_Witness ==
    /\ pc = "Done"
    /\ run = 1
    /\ card = <<>>
    /\ scrapeReturned
    /\ topline = <<>>
    /\ exitCode = 0
    /\ outFile = FileOf(<<>>)

\* C13: func is invoked at most max_retries + 1 times; the call stops at the
\* first success, returns the value of that invocation and invokes nothing
\* after it.  With max_retries = 3, two failures and then a success make
\* exactly three invocations (C13_Witness).
C13_Invariant ==
    /\ attempt <= EffectiveMaxRetries + 1
    /\ rpc = "returned" =>
          /\ retryResult = attempt - 1
          /\ last_exception = (IF attempt = 1 THEN NoException ELSE attempt - 2)

C13_StopsAtFirstSuccess ==
    /\ []C13_Invariant
    /\ [][rpc = "returned" => (attempt' = attempt /\ retryResult' = retryResult)]_vars

C13_Witness ==
    /\ call.max_retries = 3
    /\ rpc = "returned"
    /\ attempt = 3
    /\ last_exception = 1
    /\ retryResult = 2

\* C14: when all max_retries + 1 attempts fail, the error raised is that of
\* the final attempt, not of an earlier one; nothing is raised before.
C14_RaisesLastError ==
    /\ rpc = "raised" =>
          /\ attempt = EffectiveMaxRetries + 1
          /\ retryResult = attempt - 1
    /\ (rpc = "call" /\ attempt <= EffectiveMaxRetries) => retryResult = NoException

C14_Witness ==
    /\ rpc = "raised"
    /\ EffectiveMaxRetries = 3
    /\ attempt = 4
    /\ retryResult = 3
    /\ Len(sleeps) = 3

\* the max_attempts the claim speaks of: the override of the call when one is
\* passed (0 included), otherwise the value of --max-retries
ClaimedMaxAttempts ==
    IF call.max_retries # NoneArg THEN call.max_retries ELSE cliMaxRetries

\* C15: the number of attempts follows the effective max_attempts: never more
\* than that plus one invocation, and exactly that many when all fail.
C15_AttemptsFollowEffectiveMax ==
    /\ attempt <= ClaimedMaxAttempts + 1
    /\ rpc = "raised" => attempt = ClaimedMaxAttempts + 1

\* the delays slept so far never decrease
DelaysNonDecreasing ==
    \A k \in 1..(Len(sleeps) - 1) : sleeps[k].ms <= sleeps[k + 1].ms

\* C16 as stated: for every positive base_delay and max_delay and every
\* jitter draw, successive delays are non-decreasing.
C16_DelaysNonDecreasing == DelaysNonDecreasing

\* C16 amended: whenever base_delay is at least the jitter range (1000 ms,
\* as with the default), successive delays are non-decreasing up to the cap,
\* whatever the jitter draws.
C16_DelaysNonDecreasingFromJitterRange ==
    EffectiveBaseDelay >= JitterMaxMs => DelaysNonDecreasing

\* defaults, largest jitter first and smallest second, third delay at the cap
C16_Witness ==
    /\ EffectiveBaseDelay = DefaultRetryBaseDelayMs
    /\ EffectiveMaxDelay = DefaultRetryMaxDelayMs
    /\ Len(sleeps) = 3
    /\ sleeps[1].jitter = JitterMaxMs
    /\ sleeps[2].jitter = 0
    /\ sleeps[1].ms = sleeps[2].ms
    /\ sleeps[3].ms = EffectiveMaxDelay

\* C17: there is a sleep exactly after each failed attempt that is followed
\* by another attempt: none after a success, none after the final failure.
\* The sleep after attempt a (from 0) lasts min(base_delay * 2^a + jitter,
\* max_delay) with a jitter of 0..1000 ms, so no sleep exceeds max_delay.
C17_SleepsOnlyBetweenAttempts ==
    /\ \A k \in 1..Len(sleeps) :
          /\ sleeps[k].after = k - 1
          /\ sleeps[k].jitter \in 0..JitterMaxMs
          /\ LET full == EffectiveBaseDelay * Pow2(k - 1) + sleeps[k].jitter
             IN  sleeps[k].ms = (IF full < EffectiveMaxDelay THEN full ELSE EffectiveMaxDelay)
          /\ sleeps[k].ms <= EffectiveMaxDelay
    /\ rpc = "call" => Len(sleeps) = attempt
    /\ rpc \in {"returned", "raised"} => Len(sleeps) = attempt - 1

\* three failures and a success: three sleeps, the last one capped
C17_Witness ==
    /\ rpc = "returned"
    /\ attempt = 4
    /\ Len(sleeps) = 3
    /\ call.base_delay_ms = 100
    /\ call.max_delay_ms = 1500
    /\ sleeps[1].ms = 100 + JitterMaxMs
    /\ sleeps[3].ms = 400 + JitterMaxMs

\* the characters that are letters or digits
AlnumChars == Ideographs \cup Letters \cup Digits

\* the fourth tier: both texts have ideographs, and the ideograph strings
\* contain one another or share a two-character window of the expected one
IdeographTier(e, a) ==
    LET ec == IdeographCore(e)
        ac == IdeographCore(a)
    IN  /\ ec # <<>>
        /\ ac # <<>>
        /\ \/ IsSubstring(ec, ac)
           \/ IsSubstring(ac, ec)
           \/ \E k \in 1..(Len(ec) - 1) : IsSubstring(<<ec[k], ec[k + 1]>>, ac)

\* the pairs of the repository's test
ExamplesAsTested ==
    /\ expected = actual => matchResult
    /\ (expected = MaHao /\ actual = MaHaoHorseNo) => matchResult
    /\ (expected = MaHao /\ actual = QiShi) => ~matchResult

\* C20 as stated: matches(expected, observed) is true exactly when the texts
\* are equal, or one contains the other, or they are equal after stripping
\* all non-alphanumeric characters, or the ideograph tier holds.
C20_MatchesExactlyTheFourTiers ==
    mDone =>
        /\ matchResult =
              (\/ expected = actual
               \/ IsSubstring(expected, actual)
               \/ IsSubstring(actual, expected)
               \/ SelectSeq(expected, LAMBDA c : c \in AlnumChars)
                    = SelectSeq(actual, LAMBDA c : c \in AlnumChars)
               \/ IdeographTier(expected, actual))
        /\ ExamplesAsTested

\* C20 amended: the third tier strips every character that is not a letter,
\* a digit or the underscore; the underscore stays.
C20_MatchesExactlyTheFourTiersWord ==
    mDone =>
        /\ matchResult =
              (\/ expected = actual
               \/ IsSubstring(expected, actual)
               \/ IsSubstring(actual, expected)
               \/ SelectSeq(expected, LAMBDA c : c \in AlnumChars \cup {"_"})
                    = SelectSeq(actual, LAMBDA c : c \in AlnumChars \cup {"_"})
               \/ IdeographTier(expected, actual))
        /\ ExamplesAsTested

\* an annotated header is matched by containment
C20_Witness ==
    /\ mDone
    /\ expected = MaHao
    /\ actual = MaHaoHorseNo
    /\ matchResult

\* the label that the cell text resolves to, <<>> when it resolves to none
ResolvesTo(text) ==
    IF text = <<>> \/ FirstExpected(text) = 0 THEN <<>>
    ELSE EXPECTED_HEADERS[FirstExpected(text)]

\* C18: the column map holds, for each label it maps, the index of the first
\* (leftmost) cell of the header row that resolves to that label: when two
\* columns resolve to the same label the earlier index is kept.
C18_FirstMatchingColumnWins ==
    tDone =>
        \A t \in 1..Len(doc) :
            \A label \in DOMAIN column_map[t] :
                LET cols == { c \in 1..Len(doc[t].row) : ResolvesTo(doc[t].row[c]) = label }
                IN  /\ column_map[t][label] + 1 \in cols
                    /\ \A c \in cols : column_map[t][label] + 1 <= c

\* the number of expected labels that match some header cell of the table
LabelsMatched(tb) == Cardinality(FoundHeaders(tb))

\* C19: the table returned is the first one in page order in which at least
\* 3 expected labels each match some header cell; None is returned, as a
\* value, exactly when no table reaches 3.  A table with 2 matching labels
\* is never returned.
C19_FirstTableWithThreeLabels ==
    tDone =>
        /\ located \in 0..Len(doc)
        /\ located = 0 => \A t \in 1..Len(doc) : LabelsMatched(doc[t]) < 3
        /\ located # 0 =>
              /\ LabelsMatched(doc[located]) >= 3
              /\ \A t \in 1..(located - 1) : LabelsMatched(doc[t]) < 3

\* a table with two matching labels is passed over for the next one
C19_Witness ==
    /\ tDone
    /\ Len(doc) = 2
    /\ LabelsMatched(doc[1]) = 2
    /\ LabelsMatched(doc[2]) = 3
    /\ located = 2

\* no table of the page has a comprehensive or a basic header row
NoTableQualifies ==
    \A t \in 1..Len(page.tables) :
        /\ page.tables[t].fc < ComprehensiveThreshold
        /\ page.tables[t].fb < BasicThreshold

\* C21: when no table of the detail page qualifies as comprehensive or
\* basic, the past-run list is built from the last 6 "<number>: <number>"
\* matches of the page text, in source order, one entry per match; 7 matches
\* give exactly 6 entries.
C21_TextFallbackLastSix ==
    (prDone /\ NoTableQualifies) =>
        LET n == Min(page.matches, 6)
        IN  /\ Len(past_runs) = n
            /\ \A k \in 1..n :
                  past_runs[k] = [kind |-> "text", t |-> 0, r |-> page.matches - n + k]

\* the string the claim gives for a number or a boolean
ClaimedString(v) ==
    CASE v = PyInt(1)       -> "1"
      [] v = PyFloat(85, 5) -> "85.5"
      [] v = PyBool(TRUE)   -> "True"

\* what the claim gives for a field whose merged input is v: the empty
\* string for null, the string representation for a number or a boolean,
\* the same value for a string or a list
ClaimedValue(v) ==
    CASE v.py = "None"           -> PyStr("")
      [] v.py \in {"str", "list"} -> v
      [] OTHER                   -> PyStr(ClaimedString(v))

\* what the claim gives for a field no dict has a key for
ClaimedAbsent(f) == IF f \in ListFields THEN PyList(<<>>) ELSE PyStr("")

\* C22: in the record merge(topline, detail) yields, every key of detail
\* holds detail's value, every null or absent scalar is the empty string,
\* every number or boolean scalar is its string representation, and the list
\* fields hold the same elements in the same order
C22_MergeCoercion ==
    (mergeDone /\ merged_record # ValidationError) =>
        \A f \in HorseRecordFields :
            merged_record[f] =
                IF f \in DOMAIN merge_detail THEN ClaimedValue(merge_detail[f])
                ELSE IF f \in DOMAIN merge_topline THEN ClaimedValue(merge_topline[f])
                ELSE ClaimedAbsent(f)

C24_CheckpointRoundTrip ==
    (apc = "loaded" /\ saveOk) =>
        /\ Len(reloaded) = Len(assembled)
        /\ \A k \in 1..Len(assembled) :
               /\ DOMAIN reloaded[k] = DOMAIN assembled[k]
               /\ \A f \in DOMAIN assembled[k] : reloaded[k][f] = assembled[k][f]

C24_Witness ==
    /\ apc = "loaded"
    /\ saveOk
    /\ Len(assembled) = MaxRecords
    /\ Len(reloaded) = MaxRecords
    /\ assembled[1]["shang_bing_ji_lu"] = PyList(InjuryElements)
    /\ assembled[2]["wang_ji_ji_lu"] = PyList(PastRunElements)
    /\ assembled[1] # assembled[2]
    /\ reloaded[1]["shang_bing_ji_lu"].v[MaxListLen].date = ToString(MaxListLen)

\* C25: validate_date_format accepts a date only if it is a calendar date
\* written with a four-digit year, a two-digit month and a two-digit day
\* between slashes; a command line that got past the validation has such a
\* date ("2025/9/17", "25/09/17" and "2025-09-17" do not get past it)
C25_AcceptedDateIsZeroPadded ==
    (pc \notin {"Args", "Failed"}) =>
        /\ InFormatYYYYMMDD(args.date)
        /\ args.date.mon \in 1..12
        /\ args.date.day \in 1..DaysInMonth(args.date.mon)

\* C26: at most one page is open at any point of the crawl; no page is open
\* when an attempt is about to start, during the sleep after a failed
\* attempt, between two entrants, and when the crawl has ended
C26_OnePageClosedBetweenAttempts ==
    /\ browser_pages <= 1
    /\ ppc \in {"attempt", "failed_attempt", "sleep", "returned", "next", "ended"}
           => browser_pages = 0

C26_Witness ==
    /\ ppc = "ended"
    /\ entrant_no = MaxEntrants
    /\ try_no = 1
    /\ attempt_outcome = "ok"
    /\ pages_opened > MaxEntrants + 1
    /\ browser_pages = 0

\* the first row has one cell for each expected header, with exactly its text
IsFullHeaderRow(cells) ==
    /\ Len(cells) = Len(EXPECTED_HEADERS)
    /\ \A j \in 1..Len(EXPECTED_HEADERS) :
           Cardinality({c \in 1..Len(cells) : cells[c] = EXPECTED_HEADERS[j]}) = 1

\* C27: when the header row has one cell for each expected label, with
\* exactly that label as its text, the column map maps every label to the
\* index of its cell
C27_ExactLabelMapsToItsCell ==
    tDone =>
        \A t \in 1..Len(doc) :
            IsFullHeaderRow(doc[t].row) =>
                \A c \in 1..Len(doc[t].row) :
                    /\ doc[t].row[c] \in DOMAIN column_map[t]
                    /\ column_map[t][doc[t].row[c]] = c - 1

\* C28: the column map of the table find_table_by_headers returned maps at
\* least 3 expected labels; it is never empty
C28_LocatedTableMapsThreeLabels ==
    (tDone /\ located # 0) =>
        /\ column_map[located] # <<>>
        /\ Cardinality(DOMAIN column_map[located]) >= MinHeadersFound

\* C29: at most one background scraper run is in progress at any moment,
\* whatever the interleaving of the POST /api/scrape requests
C29_AtMostOneScraperRuns ==
    Cardinality({t \in 1..Len(threads) : threads[t] = "running"}) <= 1

\* C30: once a new run has been started, GET /api/result does not return
\* the result of an earlier run: it answers that no result is available
\* while the new run is in progress, and with the error of the new run after
\* that run failed
C30_ResultIsOfTheNewestRun ==
    /\ got.status = 200 => got.body = got.run
    /\ got.state \in {"created", "running"} => got.status = 404
    /\ got.state = "failed" => (got.status = 500 /\ got.body = got.run)

====
